---- MODULE Spec2Model ----
(***************************************************************************)
(* Codebase Navigator: repository-root resolution, structure aggregation   *)
(* and the phase orchestrator with its analysis history.                   *)
(*                                                                         *)
(* The specifications share the variables below:                           *)
(*   SpecRoot      - findRepositoryRoot applied to bounded filesystems     *)
(*   SpecStructure - buildCodeStructureMap applied to bounded file lists   *)
(*   SpecRanking   - buildCodeStructureMap applied to longer file lists    *)
(*   SpecDocs      - findKeyDocs applied to bounded directory trees        *)
(*   SpecImports   - extractImports applied to bounded file contents       *)
(*   SpecAggregate - analyzeCodeFiles applied to bounded source-file lists *)
(*   SpecTags      - detectPatterns and analyzeArchitecture applied to     *)
(*                   bounded JavaScript sources                            *)
(*   SpecReport    - the Synthesis and comprehensive renderers applied to  *)
(*                   bounded histories                                     *)
(*   SpecWalk      - the directory scans and the upward walk, step by step *)
(*   SpecWalkLive  - SpecWalk with a traversal that keeps running          *)
(*   Spec          - processCodebaseAnalysis, one invocation at a time     *)
(*   SpecOverlap   - processCodebaseAnalysis, invocations may overlap      *)
(***************************************************************************)
EXTENDS Integers, Sequences, FiniteSets, TLC

VARIABLES
  markers,          \* filesystem: directory -> set of marker entries present in it
  rootStart,        \* findRepositoryRoot: the startPath argument of the last call
  rootResult,       \* findRepositoryRoot: the returned string of the last call
  fileContents,     \* buildCodeStructureMap: the FileContent[] argument
  structure,        \* buildCodeStructureMap: the returned CodeStructure
  docScan,          \* findKeyDocs: the directory tree scanned and the failing fs call
  keyDocs,          \* findKeyDocs: how the call ended and the paths it returned
  source,           \* extractImports: the content and extension arguments
  imports,          \* extractImports: the returned list
  codeFiles,        \* analyzeCodeFiles: the source files findCodeFiles returns
  analysisResult,   \* analyzeCodeFiles: the returned CodeAnalysisResult
  reportHistory,    \* report renderers: the analysisHistory argument
  reportOut,        \* report renderers: how the last call ended and what it returned
  tagSource,        \* detectPatterns / analyzeArchitecture: the file analysed
  tags,             \* detectPatterns / analyzeArchitecture: the returned tag lists
  walk,             \* a traversal in progress: its call stack or its current path
  analysisHistory,  \* CodebaseNavigatorServer.analysisHistory
  calls,            \* per invocation of processCodebaseAnalysis: its locals and position
  results           \* per invocation: how its promise settled

vars == <<markers, rootStart, rootResult, fileContents, structure,
          docScan, keyDocs, source, imports, codeFiles, analysisResult,
          reportHistory, reportOut, tagSource, tags, walk, analysisHistory, calls,
          results>>

rootVars   == <<rootStart, rootResult>>
structVars == <<fileContents, structure>>
serverVars == <<analysisHistory, calls, results>>
docVars    == <<docScan, keyDocs>>
importVars == <<source, imports>>
aggVars    == <<codeFiles, analysisResult>>
reportVars == <<reportHistory, reportOut>>
tagVars    == <<tagSource, tags>>
pureVars   == <<docVars, importVars, aggVars, reportVars, tagVars, walk>>

(***************************************************************************)
(* Paths.  A path string is modelled by its form and its components:       *)
(* "abs" is /c1/c2.., "rel" is c1/c2.. (relative to the working            *)
(* directory), "empty" is the empty string and "undefined" the absent      *)
(* value.  The filesystem is the chain / , /a , /a/b , /a/b/c with one     *)
(* regular file /a/b/f.ts.                                                 *)
(***************************************************************************)
AbsPath(comps) == [tag |-> "abs", comps |-> comps]
RelPath(comps) == [tag |-> "rel", comps |-> comps]
EmptyPath      == [tag |-> "empty", comps |-> <<>>]
Undefined      == [tag |-> "undefined", comps |-> <<>>]

rootPath == <<>>
Cwd      == <<"a">>
Dirs     == {<<>>, <<"a">>, <<"a", "b">>, <<"a", "b", "c">>}
Files    == {<<"a", "b", "f.ts">>}

\* path.resolve(p): absolute form of a path string
Resolve(p) == IF p.tag = "abs" THEN p.comps ELSE Cwd \o p.comps

\* path.dirname on a resolved path; the root is its own parent
Dirname(d) == IF d = rootPath THEN rootPath ELSE SubSeq(d, 1, Len(d) - 1)

repositoryMarkers ==
  <<".git", "package.json", "pyproject.toml", "Cargo.toml", "pom.xml",
    "build.gradle", "go.mod", "composer.json", "Gemfile", ".gitignore",
    "README.md">>

\* fs.existsSync(path.join(dir, marker)) on the filesystem fsm
MarkerExists(fsm, dir, marker) == dir \in Dirs /\ marker \in fsm[dir]

\* fs.existsSync(p) for a path string
ExistsSync(fsm, p) ==
  /\ p.tag \in {"abs", "rel"}
  /\ \/ Resolve(p) \in Dirs \cup Files
     \/ /\ Resolve(p) # rootPath
        /\ MarkerExists(fsm, Dirname(Resolve(p)), Resolve(p)[Len(Resolve(p))])

\* mutant: the marker loop starts one entry late and never tests ".git"
HasMarker_skipFirst(fsm, currentPath) ==
  \E i \in 2..Len(repositoryMarkers) : MarkerExists(fsm, currentPath, repositoryMarkers[i])

\* the inner for loop: does currentPath hold any marker
HasMarker(fsm, currentPath) ==
  \E i \in 1..Len(repositoryMarkers) : MarkerExists(fsm, currentPath, repositoryMarkers[i])

\* the while loop of findRepositoryRoot
RECURSIVE WalkUp(_, _, _)
WalkUp(fsm, currentPath, startPath) ==
  IF currentPath = rootPath THEN startPath
  ELSE IF HasMarker(fsm, currentPath) THEN AbsPath(currentPath)
  ELSE IF Dirname(currentPath) = currentPath THEN startPath
  ELSE WalkUp(fsm, Dirname(currentPath), startPath)

\* mutant: markers ranked globally, the highest-priority marker anywhere wins
RECURSIVE NearestWith(_, _, _)
NearestWith(fsm, currentPath, marker) ==
  IF currentPath = rootPath THEN rootPath
  ELSE IF MarkerExists(fsm, currentPath, marker) THEN currentPath
  ELSE NearestWith(fsm, Dirname(currentPath), marker)

RECURSIVE ByPriority(_, _, _)
ByPriority(fsm, startPath, i) ==
  IF i > Len(repositoryMarkers) THEN startPath
  ELSE IF NearestWith(fsm, Resolve(startPath), repositoryMarkers[i]) # rootPath
       THEN AbsPath(NearestWith(fsm, Resolve(startPath), repositoryMarkers[i]))
       ELSE ByPriority(fsm, startPath, i + 1)

findRepositoryRoot_priority(fsm, startPath) == ByPriority(fsm, startPath, 1)

\* mutant: the fallback returns the resolved path instead of the argument
findRepositoryRoot_resolved(fsm, startPath) ==
  IF WalkUp(fsm, Resolve(startPath), startPath) = startPath
  THEN AbsPath(Resolve(startPath))
  ELSE WalkUp(fsm, Resolve(startPath), startPath)

\* mutant: the walk starts at the parent of the start path
findRepositoryRoot_skipStart(fsm, startPath) ==
  WalkUp(fsm, Dirname(Resolve(startPath)), startPath)

findRepositoryRoot(fsm, startPath) == WalkUp(fsm, Resolve(startPath), startPath)

(***************************************************************************)
(* buildCodeStructureMap.  A FileContent is [path, size, lines, extension] *)
(* (its content is not read by the aggregation).                           *)
(***************************************************************************)
Min(a, b) == IF a < b THEN a ELSE b

RECURSIVE SumLines(_)
SumLines(fs) == IF fs = <<>> THEN 0 ELSE fs[1].lines + SumLines(Tail(fs))

RECURSIVE SumSize(_)
SumSize(fs) == IF fs = <<>> THEN 0 ELSE fs[1].size + SumSize(Tail(fs))

\* file.extension || 'no-extension'
ExtKey(file) == IF file.extension = "" THEN "no-extension" ELSE file.extension

\* the forEach that groups by extension
FilesByExtension(fs) ==
  [ext \in {ExtKey(fs[i]) : i \in 1..Len(fs)} |->
     [count      |-> Cardinality({i \in 1..Len(fs) : ExtKey(fs[i]) = ext}),
      totalLines |-> SumLines(SelectSeq(fs, LAMBDA f : ExtKey(f) = ext))]]

\* a file is put in front of the files with the same line count
RECURSIVE InsertBeforeTies(_, _)
InsertBeforeTies(sorted, f) ==
  IF sorted = <<>> THEN <<f>>
  ELSE IF sorted[1].lines > f.lines THEN <<sorted[1]>> \o InsertBeforeTies(Tail(sorted), f)
  ELSE <<f>> \o sorted

\* mutant: the sort is not stable, files with equal line counts come out in
\* reverse encounter order
InsertDesc_beforeTies(sorted, f) == InsertBeforeTies(sorted, f)

\* Array.prototype.sort((a, b) => b.lines - a.lines): stable, descending
RECURSIVE InsertDesc(_, _)
InsertDesc(sorted, f) ==
  IF sorted = <<>> THEN <<f>>
  ELSE IF sorted[1].lines >= f.lines THEN <<sorted[1]>> \o InsertDesc(Tail(sorted), f)
  ELSE <<f>> \o sorted

RECURSIVE SortByLinesDesc(_)
SortByLinesDesc(fs) ==
  IF fs = <<>> THEN <<>>
  ELSE InsertDesc(SortByLinesDesc(SubSeq(fs, 1, Len(fs) - 1)), fs[Len(fs)])

\* .slice(0, 5).map(file => ({path, lines, size}))
LargestFiles(sorted) ==
  [i \in 1..Min(5, Len(sorted)) |->
     [path |-> sorted[i].path, lines |-> sorted[i].lines, size |-> sorted[i].size]]

\* mutant: the thresholds are inclusive (>= 1000 Medium, >= 5000 High)
Complexity_inclusive(totalLines) ==
  IF totalLines >= 5000 THEN "High"
  ELSE IF totalLines >= 1000 THEN "Medium"
  ELSE "Low"

\* the if / else-if chain on structure.totalLines
Complexity(totalLines) ==
  IF totalLines > 5000 THEN "High"
  ELSE IF totalLines > 1000 THEN "Medium"
  ELSE "Low"

buildCodeStructureMap(fs) ==
  [totalFiles       |-> Len(fs),
   totalLines       |-> SumLines(fs),
   totalSize        |-> SumSize(fs),
   filesByExtension |-> FilesByExtension(fs),
   largestFiles     |-> LargestFiles(SortByLinesDesc(fs)),
   complexity       |-> Complexity(SumLines(fs))]

\* the structure literal before any file is counted
NoStructure ==
  [totalFiles |-> 0, totalLines |-> 0, totalSize |-> 0, filesByExtension |-> <<>>,
   largestFiles |-> <<>>, complexity |-> "unknown"]

(***************************************************************************)
(* findKeyDocs.  A file or directory name is the sequence of its parts,    *)
(* cut at the dots and at the words the key patterns look for, so that     *)
(* "readme.MD" is <<"readme", ".", "MD">>.  A directory tree is a node     *)
(* [name, kind, items] with items in the order readdirSync lists them; a   *)
(* path is the sequence of names below the scanned directory.              *)
(***************************************************************************)
README_md    == <<"README", ".", "md">>
readme_MD    == <<"readme", ".", "MD">>
README_Md    == <<"README", ".", "Md">>
notes_md     == <<"notes", ".", "md">>
my_claude_md == <<"my-", "claude", ".", "md">>
DESIGN_md    == <<"DESIGN", ".", "md">>

\* the lower-case form of a name part
LowerPart(part) ==
  CASE part = "README" -> "readme"
    [] part = "DESIGN" -> "design"
    [] part = "MD"     -> "md"
    [] part = "Md"     -> "md"
    [] part = "createServer" -> "createserver"
    [] part = "Server" -> "server"
    [] OTHER           -> part

toLowerCase(name) == [i \in 1..Len(name) |-> LowerPart(name[i])]

\* String.prototype.endsWith
endsWith(name, suffix) ==
  /\ Len(suffix) <= Len(name)
  /\ SubSeq(name, Len(name) - Len(suffix) + 1, Len(name)) = suffix

\* const keyPatterns: eight patterns anchored at both ends, two at the end only
keyPatterns ==
  <<[anchored |-> TRUE,  text |-> <<"readme", ".", "md">>],
    [anchored |-> TRUE,  text |-> <<"architecture", ".", "md">>],
    [anchored |-> TRUE,  text |-> <<"planning", ".", "md">>],
    [anchored |-> TRUE,  text |-> <<"design", ".", "md">>],
    [anchored |-> TRUE,  text |-> <<"prd", ".", "md">>],
    [anchored |-> TRUE,  text |-> <<"contributing", ".", "md">>],
    [anchored |-> TRUE,  text |-> <<"agents", ".", "md">>],
    [anchored |-> TRUE,  text |-> <<"tasks", ".", "md">>],
    [anchored |-> FALSE, text |-> <<"copilot-instructions", ".", "md">>],
    [anchored |-> FALSE, text |-> <<"claude", ".", "md">>]>>

\* pattern.test(item) with the i flag
PatternTest(pattern, item) ==
  IF pattern.anchored THEN toLowerCase(item) = pattern.text
  ELSE endsWith(toLowerCase(item), pattern.text)

\* item.endsWith('.md') && keyPatterns.some(pattern => pattern.test(item))
IsKeyDoc(item) ==
  /\ endsWith(item, <<".", "md">>)
  /\ \E i \in 1..Len(keyPatterns) : PatternTest(keyPatterns[i], item)

\* the directories scanDir does not enter
SkippedDirectories == {<<"node_modules">>, <<".git">>, <<"dist">>, <<"build">>}

\* mutant: the scan gives up one level early
TooDeep_inclusive(depth) == depth >= 10

\* if (depth > 10) return
TooDeep(depth) == depth > 10

File(name)       == [name |-> name, kind |-> "file", items |-> <<>>]
Dir(name, items) == [name |-> name, kind |-> "dir", items |-> items]

\* the fs call that throws during a scan: none, readdirSync(path) or statSync(path)
NoFault          == [op |-> "none", path |-> <<>>]
ReaddirFault(p)  == [op |-> "readdir", path |-> p]
StatFault(p)     == [op |-> "stat", path |-> p]

\* scanDir and its for loop; thrown is an exception on its way out of the
\* recursion to the try block of findKeyDocs
RECURSIVE scanDir(_, _, _, _, _)
RECURSIVE scanItems(_, _, _, _, _, _)
scanDir(node, dir, depth, fault, acc) ==
  IF TooDeep(depth) THEN acc
  ELSE IF fault = ReaddirFault(dir) THEN [acc EXCEPT !.thrown = TRUE]
  ELSE scanItems(node.items, 1, dir, depth, fault, acc)

scanItems(items, i, dir, depth, fault, acc) ==
  IF acc.thrown \/ i > Len(items) THEN acc
  ELSE LET item     == items[i].name
           itemPath == Append(dir, item)
           after    ==
             IF fault = StatFault(itemPath) THEN [acc EXCEPT !.thrown = TRUE]
             ELSE IF items[i].kind = "dir" /\ item \notin SkippedDirectories
                  THEN scanDir(items[i], itemPath, depth + 1, fault, acc)
             ELSE IF items[i].kind = "file" /\ IsKeyDoc(item)
                  THEN [acc EXCEPT !.keyDocs = Append(acc.keyDocs, itemPath)]
             ELSE acc
       IN scanItems(items, i + 1, dir, depth, fault, after)

ScanFrom(tree, fault) == scanDir(tree, <<>>, 0, fault, [keyDocs |-> <<>>, thrown |-> FALSE])

\* mutant: no try block around the scan
findKeyDocs_noCatch(tree, fault) ==
  [called |-> TRUE, threw |-> ScanFrom(tree, fault).thrown,
   keyDocs |-> ScanFrom(tree, fault).keyDocs]

\* the try block swallows the exception and keyDocs is returned as it is
findKeyDocs(tree, fault) ==
  [called |-> TRUE, threw |-> FALSE, keyDocs |-> ScanFrom(tree, fault).keyDocs]

NoKeyDocs == [called |-> FALSE, threw |-> FALSE, keyDocs |-> <<>>]

(***************************************************************************)
(* extractImports.  A file content is the sequence of its import           *)
(* statements, each [form, binding, module]:                                *)
(*   import_from   import <binding> from '<module>'                        *)
(*   require_call  require('<module>')                                     *)
(*   py_from       from <module> import <binding>                          *)
(*   py_import     import <module>                                         *)
(*   include       #include "<module>"                                     *)
(* A module specifier or binding is the sequence of its characters.  The   *)
(* strategies of .js/.ts/.tsx/.jsx, .py and .c/.h are modelled; the other  *)
(* extensions drawn have no case in the switch.                            *)
(***************************************************************************)
Statement(form, binding, module) == [form |-> form, binding |-> binding, module |-> module]

\* String.prototype.startsWith for one character
startsWith(str, ch) == Len(str) > 0 /\ str[1] = ch

\* what the capture groups of one regular expression pass give, in match order
Captures(content, forms) ==
  LET matches == SelectSeq(content, LAMBDA st : st.form \in forms)
  IN [i \in 1..Len(matches) |-> matches[i].module]

\* /(?:from\s+(\S+)\s+import|import\s+(\S+))/g: the word after "import" is
\* captured when no "from ... import" starts earlier, which on an ES import
\* statement is its binding
PythonCaptures(content) ==
  LET matches == SelectSeq(content, LAMBDA st : st.form \in {"py_from", "py_import", "import_from"})
  IN [i \in 1..Len(matches) |->
        IF matches[i].form = "import_from" THEN matches[i].binding ELSE matches[i].module]

\* the switch on the extension: all import matches, then all require matches
RawImports(content, extension) ==
  IF extension \in {".js", ".ts", ".tsx", ".jsx"}
    THEN Captures(content, {"import_from"}) \o Captures(content, {"require_call"})
  ELSE IF extension = ".py" THEN PythonCaptures(content)
  ELSE IF extension \in {".c", ".h"} THEN Captures(content, {"include"})
  ELSE <<>>

\* mutant: the final filter is missing
extractImports_unfiltered(content, extension) == RawImports(content, extension)

\* imports.filter(imp => imp && !imp.startsWith('.'))
extractImports(content, extension) ==
  SelectSeq(RawImports(content, extension), LAMBDA imp : imp # <<>> /\ ~startsWith(imp, "."))

(***************************************************************************)
(* analyzeCodeFiles.  A source file is given by what reading it and the    *)
(* per-file passes return on it: readable, lines, size, extension and the  *)
(* lists of extractImports, detectPatterns, extractCodeElements and        *)
(* analyzeArchitecture and the answer of isEntryPoint.                     *)
(***************************************************************************)
\* [...new Set(list)]: the first occurrence of every value, in order
RECURSIVE Unique(_)
Unique(list) ==
  IF list = <<>> THEN <<>>
  ELSE LET front == Unique(SubSeq(list, 1, Len(list) - 1))
           last  == list[Len(list)]
       IN IF \E i \in 1..Len(front) : front[i] = last THEN front ELSE Append(front, last)

\* mutant: the lists are returned as they were concatenated
Deduplicate_none(list) == list

\* the four assignments under "Remove duplicates"
Deduplicate(list) == Unique(list)

\* codeStructure: {} as any
EmptyObject == [empty |-> TRUE]

\* the analysis literal before the loop
NoAnalysis ==
  [dependencies |-> <<>>, entryPoints |-> <<>>, patterns |-> <<>>,
   codeStructure |-> EmptyObject, functionsAndClasses |-> <<>>,
   fileContents |-> <<>>, architecture |-> <<>>]

\* one turn of the for loop on a file that was read
AnalyzeFile(acc, file) ==
  [acc EXCEPT
     !.fileContents = Append(@, [path |-> file.path, size |-> file.size,
                                 lines |-> file.lines, extension |-> file.extension]),
     !.dependencies = @ \o file.imports,
     !.entryPoints = IF file.entryPoint THEN Append(@, file.path) ELSE @,
     !.patterns = @ \o file.patterns,
     !.functionsAndClasses = @ \o [i \in 1..Len(file.elements) |->
                                     [type |-> file.elements[i].type,
                                      name |-> file.elements[i].name,
                                      file |-> file.path]],
     !.architecture = @ \o file.architecture]

\* the for loop: readFileSync throws on a file that cannot be read
RECURSIVE AnalyzeLoop(_, _, _)
AnalyzeLoop(files, i, acc) ==
  IF i > Len(files) THEN [thrown |-> FALSE, analysis |-> acc]
  ELSE IF ~files[i].readable THEN [thrown |-> TRUE, analysis |-> acc]
  ELSE AnalyzeLoop(files, i + 1, AnalyzeFile(acc, files[i]))

\* the try block: after the loop the structure map is built (which sorts
\* fileContents in place) and four lists are de-duplicated; the catch block
\* only logs, so after a throw the analysis is returned as far as it got
analyzeCodeFiles(files) ==
  LET looped == AnalyzeLoop(files, 1, NoAnalysis)
      raw    == looped.analysis
  IN IF looped.thrown THEN raw
     ELSE [raw EXCEPT
             !.codeStructure = buildCodeStructureMap(raw.fileContents),
             !.fileContents = SortByLinesDesc(raw.fileContents),
             !.dependencies = Deduplicate(raw.dependencies),
             !.entryPoints = Deduplicate(raw.entryPoints),
             !.patterns = Deduplicate(raw.patterns),
             !.architecture = Deduplicate(raw.architecture)]

\* processPhase3 reads codeStructure.totalLines.toLocaleString(): a TypeError
\* when codeStructure is still the empty object
processPhase3Throws(codeAnalysis) == codeAnalysis.codeStructure = EmptyObject

(***************************************************************************)
(* detectPatterns and analyzeArchitecture.  A source text is the sequence  *)
(* of its tokens (words and punctuation; white space is left out), so that *)
(* require('express')() is                                                 *)
(*   <<"require", "(", "'", "express", "'", ")", "(", ")">>.               *)
(* A regular expression without wildcards is the set of its alternatives,  *)
(* each a token sequence that is searched for.  The tests modelled are the *)
(* ones whose alternatives occur in Express sources; the other tests of    *)
(* the two functions append other tags.                                    *)
(***************************************************************************)
\* String.prototype.includes
includes(text, needle) ==
  \E i \in 1..(Len(text) - Len(needle) + 1) : SubSeq(text, i, i + Len(needle) - 1) = needle

\* RegExp.prototype.test, without and with the i flag
RegExpTest(alternatives, text) == \E needle \in alternatives : includes(text, needle)
RegExpTestIgnoreCase(alternatives, text) ==
  \E needle \in alternatives : includes(toLowerCase(text), toLowerCase(needle))

\* /express\(\)|app\.get|app\.post|router\./i
ExpressPattern ==
  {<<"express", "(", ")">>, <<"app", ".", "get">>, <<"app", ".", "post">>, <<"router", ".">>}

\* mutant: the architecture test also accepts route registrations
ServerPattern_withRoutes ==
  {<<"server", "=", "new", "Server">>, <<"createServer">>, <<"express", "(", ")">>,
   <<"app", ".", "get">>, <<"app", ".", "post">>}

\* /server\s*=\s*new\s+Server|createServer|express\(\)/
ServerPattern ==
  {<<"server", "=", "new", "Server">>, <<"createServer">>, <<"express", "(", ")">>}

\* /router\.|Router\(|app\.use/
RoutingPattern == {<<"router", ".">>, <<"Router", "(">>, <<"app", ".", "use">>}

\* /middleware|app\.use\(/
MiddlewarePattern == {<<"middleware">>, <<"app", ".", "use", "(">>}

\* /logger\.|console\.|log\(/
LoggingPattern == {<<"logger", ".">>, <<"console", ".">>, <<"log", "(">>}

\* the alternative \w+\s*\( of the Functions test: a word in front of "("
Punctuation == {"(", ")", ".", "'", ",", ";", "="}
CallsSomething(text) ==
  \E i \in 1..(Len(text) - 1) : text[i] \notin Punctuation /\ text[i + 1] = "("

\* if (test) patterns.push(tag)
PushIf(test, tag) == IF test THEN <<tag>> ELSE <<>>

detectPatterns(content, filePath) ==
  PushIf(CallsSomething(content), "Functions")
    \o PushIf(RegExpTestIgnoreCase(ExpressPattern, content), "Express.js/Web Server")

analyzeArchitecture(content, filePath) ==
  PushIf(RegExpTest(ServerPattern, content), "Server Architecture")
    \o PushIf(RegExpTest(RoutingPattern, content), "Routing Pattern")
    \o PushIf(RegExpTest(MiddlewarePattern, content), "Middleware Pattern")
    \o PushIf(RegExpTest(LoggingPattern, content), "Logging")

NoTags == [called |-> FALSE, patterns |-> <<>>, architecture |-> <<>>]

(***************************************************************************)
(* The traversals step by step.  A directory graph gives, for each         *)
(* directory, the entries readdirSync lists; an entry of kind "dir" is a   *)
(* subdirectory or a link to a directory (statSync follows links), so a    *)
(* graph may have cycles.  The call stack of scanDir / walkDir is a        *)
(* sequence of frames [dir, depth, next], next being the index of the      *)
(* entry the for loop looks at next.                                       *)
(***************************************************************************)
FileEntry          == [name |-> <<"f", ".", "ts">>, kind |-> "file", to |-> ""]
DirEntry(name, to) == [name |-> <<name>>, kind |-> "dir", to |-> to]

\* the directories walkDir of findCodeFiles does not enter
SkippedByWalkDir ==
  {<<"node_modules">>, <<".git">>, <<"dist">>, <<"build">>, <<"__pycache__">>, <<"target">>,
   <<"bin">>, <<"obj">>, <<".vscode">>, <<".idea">>, <<"vendor">>, <<".gradle">>, <<".maven">>,
   <<"cmake-build-debug">>}

\* the skip list of the scan of kind
SkipList(kind) == IF kind = "findKeyDocs" THEN SkippedDirectories ELSE SkippedByWalkDir

\* mutant: the scans have no depth limit
TooDeepToScan_never(depth) == FALSE

\* if (depth > 10) return, the first statement of scanDir and of walkDir
TooDeepToScan(depth) == TooDeep(depth)

\* no traversal: deepest is the greatest depth of a directory that was
\* listed, cut tells that a call returned at once for its depth, steps counts
\* the turns of the while loop of findRepositoryRoot
NoWalk ==
  [kind |-> "none", items |-> [r |-> <<>>, a |-> <<>>], stack |-> <<>>, deepest |-> 0,
   cut |-> FALSE, start |-> Undefined, currentPath |-> <<>>, steps |-> 0, pc |-> "idle",
   result |-> Undefined]

\* scanDir(dir, depth) / walkDir(dir, depth) is called: it returns at once
\* when the depth is over the limit, else it lists the directory
CallScan(w, dir, depth) ==
  IF TooDeepToScan(depth) THEN [w EXCEPT !.cut = TRUE]
  ELSE [w EXCEPT !.stack = Append(@, [dir |-> dir, depth |-> depth, next |-> 1]),
                 !.deepest = IF depth > @ THEN depth ELSE @]

(***************************************************************************)
(* CodebaseNavigatorServer.  An invocation of processCodebaseAnalysis is   *)
(* an async function: it runs until its next await, and other invocations  *)
(* of the same server object may run in between.  Its positions are        *)
(*   idle      not yet invoked                                             *)
(*   resolved  suspended at  await findRepositoryRoot(providedPath)        *)
(*   rendered  suspended at  await processPhaseN(...)                      *)
(*   reported  suspended at  await generateComprehensiveReport(...)        *)
(*   done      its promise has settled                                     *)
(* The scans that feed phases 1-3 read the filesystem only and are folded  *)
(* into the step that calls the renderer.                                  *)
(***************************************************************************)
MaxCalls == 2
Calls    == 1..MaxCalls

\* mutant: two phases of the loop are swapped
allPhases_swapped == <<"conceptual", "analysis", "structural", "synthesis">>

\* const allPhases
allPhases == <<"conceptual", "structural", "analysis", "synthesis">>
FourPhases == {allPhases[i] : i \in 1..Len(allPhases)}

\* the phase argument: absent, or a string
NoPhase      == [given |-> FALSE, text |-> ""]
PhaseArg(t)  == [given |-> TRUE, text |-> t]

\* mutant: no default, the raw argument is used
RequestedPhase_noDefault(phase) == phase.text

\* (data.phase as string) || 'all'
RequestedPhase(phase) == IF ~phase.given \/ phase.text = "" THEN "all" ELSE phase.text

\* mutant: only the presence of the path is tested
InvalidPath_presenceOnly(fsm, providedPath) ==
  providedPath.tag \in {"undefined", "empty"}

\* !providedPath || !fs.existsSync(providedPath)
InvalidPath(fsm, providedPath) ==
  providedPath.tag \in {"undefined", "empty"} \/ ~ExistsSync(fsm, providedPath)

\* The text a renderer returns, by what it was rendered from.  call names the
\* invocation that rendered it; completed and recent are what processPhase4
\* read from the history (length and the phases of slice(-3)); summaryOf
\* names the history records whose findings the renderer read.
NoFindings ==
  [phase |-> "", project |-> Undefined, call |-> 0, completed |-> 0, recent |-> <<>>,
   summaryOf |-> <<>>]

\* Array.prototype.find: the first record of the phase, or undefined
NotFound == [found |-> FALSE]
Find(history, phase) ==
  IF \E i \in 1..Len(history) : history[i].phase = phase
  THEN history[CHOOSE i \in 1..Len(history) :
                 /\ history[i].phase = phase
                 /\ \A j \in 1..(i - 1) : history[j].phase # phase]
  ELSE NotFound

\* a history record the renderer read, by the invocation that appended it and
\* the project it is about; nothing when find returned undefined
Source(record) ==
  IF record = NotFound THEN [call |-> 0, project |-> Undefined]
  ELSE [call |-> record.findings.call, project |-> record.projectPath]

\* analysisHistory.slice(-3), the records
recentAnalyses(history) ==
  SubSeq(history, Len(history) - Min(3, Len(history)) + 1, Len(history))

\* mutant: the first three records are summarized
LastThree_firstThree(history) ==
  [i \in 1..Min(3, Len(history)) |-> history[i].phase]

\* analysisHistory.slice(-3), by phase
LastThree(history) ==
  [i \in 1..Min(3, Len(history)) |-> history[Len(history) - Min(3, Len(history)) + i].phase]

processPhase123(c, phase, projectPath) ==
  [phase |-> phase, project |-> projectPath, call |-> c, completed |-> 0, recent |-> <<>>,
   summaryOf |-> <<>>]

processPhase4(c, projectPath, history) ==
  [phase |-> "synthesis", project |-> projectPath, call |-> c,
   completed |-> Len(history), recent |-> LastThree(history),
   summaryOf |-> [i \in 1..Len(recentAnalyses(history)) |-> Source(recentAnalyses(history)[i])]]

RenderPhase(c, phase, projectPath, history) ==
  IF phase = "synthesis" THEN processPhase4(c, projectPath, history)
  ELSE processPhase123(c, phase, projectPath)

\* generateComprehensiveReport: the concatenated phase texts, the length of
\* the history it was handed and the three records its executive summary and
\* health indicators are derived from
generateComprehensiveReport(c, projectPath, comprehensiveReport, history) ==
  [phase |-> "comprehensive", project |-> projectPath, call |-> c,
   completed |-> Len(history), recent |-> [i \in 1..Len(comprehensiveReport) |->
                                             comprehensiveReport[i].phase],
   summaryOf |-> <<Source(Find(history, "conceptual")), Source(Find(history, "structural")),
                   Source(Find(history, "analysis"))>>]

\* mutant: synthesis keeps asking for a next phase
NextPhaseNeeded_always(phase) == TRUE

\* nextPhaseNeeded of a record: false for synthesis only
NextPhaseNeeded(phase) == phase # "synthesis"

\* the CodebaseAnalysis literal; its timestamp is only printed by the
\* log formatter and is left out
PhaseRecord(projectPath, phase, findings) ==
  [projectPath |-> projectPath, phase |-> phase, findings |-> findings,
   nextPhaseNeeded |-> NextPhaseNeeded(phase)]

\* mutant: the history keeps only the newest record
Push_replace(history, record) == <<record>>

\* this.analysisHistory.push(analysis)
Push(history, record) == Append(history, record)

\* mutant: the suggestion repeats the current phase
getSuggestedNextPhase_same(currentPhase) == currentPhase

\* phaseOrder[indexOf(currentPhase) + 1], 'complete' after the last
getSuggestedNextPhase(currentPhase) ==
  LET phaseOrder == <<"conceptual", "structural", "analysis", "synthesis">>
      currentIndex == CHOOSE i \in 1..Len(phaseOrder) : phaseOrder[i] = currentPhase
  IN IF currentIndex < Len(phaseOrder) THEN phaseOrder[currentIndex + 1] ELSE "complete"

\* mutant: the value is passed on whether or not the paths differ
IfMoved_always(repositoryRoot, providedPath, x) == x

\* repositoryRoot !== providedPath ? x : undefined
IfMoved(repositoryRoot, providedPath, x) ==
  IF repositoryRoot # providedPath THEN x ELSE Undefined

(* How the promise of an invocation settled, and the JSON it carries.      *)
(* Fields that JSON.stringify leaves out hold Undefined, "" or <<>>.        *)
NoResult ==
  [settled |-> "pending", isError |-> FALSE, status |-> "", error |-> "",
   phase |-> "", projectPath |-> Undefined, repositoryRoot |-> Undefined,
   providedPath |-> Undefined, findings |-> NoFindings, nextPhaseNeeded |-> FALSE,
   analysisHistoryLength |-> 0, suggestedNextPhase |-> "", completedPhases |-> <<>>]

\* the catch block of processCodebaseAnalysis
FailureEnvelope(message) ==
  [NoResult EXCEPT !.settled = "fulfilled", !.isError = TRUE,
                   !.status = "failed", !.error = message]

\* an exception that leaves processCodebaseAnalysis as a rejected promise
Rejected(message) == [NoResult EXCEPT !.settled = "rejected", !.error = message]

\* the return value of runSinglePhase
SingleEnvelope(phase, projectPath, repositoryRoot, providedPath, findings, nextPhaseNeeded, length) ==
  [NoResult EXCEPT !.settled = "fulfilled", !.phase = phase, !.projectPath = projectPath,
                   !.repositoryRoot = repositoryRoot, !.providedPath = providedPath,
                   !.findings = findings, !.nextPhaseNeeded = nextPhaseNeeded,
                   !.analysisHistoryLength = length,
                   !.suggestedNextPhase = getSuggestedNextPhase(phase)]

\* mutant: the envelope reports the four phases of the run, not the history
ComprehensiveEnvelope_fourPhases(projectPath, repositoryRoot, providedPath, finalReport, length) ==
  [NoResult EXCEPT !.settled = "fulfilled", !.phase = "comprehensive",
                   !.projectPath = projectPath,
                   !.repositoryRoot = IfMoved(repositoryRoot, providedPath, repositoryRoot),
                   !.providedPath = IfMoved(repositoryRoot, providedPath, providedPath),
                   !.findings = finalReport, !.nextPhaseNeeded = FALSE,
                   !.analysisHistoryLength = 4, !.completedPhases = allPhases]

\* the return value of the all-phases branch
ComprehensiveEnvelope(projectPath, repositoryRoot, providedPath, finalReport, length) ==
  [NoResult EXCEPT !.settled = "fulfilled", !.phase = "comprehensive",
                   !.projectPath = projectPath,
                   !.repositoryRoot = IfMoved(repositoryRoot, providedPath, repositoryRoot),
                   !.providedPath = IfMoved(repositoryRoot, providedPath, providedPath),
                   !.findings = finalReport, !.nextPhaseNeeded = FALSE,
                   !.analysisHistoryLength = length, !.completedPhases = allPhases]

\* the locals of one invocation; input is kept after the promise settled
IdleCall ==
  [pc |-> "idle", input |-> [projectPath |-> Undefined, phase |-> NoPhase],
   requestedPhase |-> "", repositoryRoot |-> Undefined, phase |-> "",
   findings |-> NoFindings, thrown |-> FALSE, readFailed |-> FALSE,
   comprehensiveReport |-> <<>>, finalReport |-> NoFindings]

\* readFailed records that readFileSync threw during the invocation
Settle(call) == [IdleCall EXCEPT !.pc = "done", !.input = call.input,
                                 !.requestedPhase = call.requestedPhase,
                                 !.readFailed = call.readFailed]

(***************************************************************************)
(* processPhase1.  The text is the sequence of its tokens; the number of   *)
(* documents is printed digit by digit.                                    *)
(***************************************************************************)
\* `${keyDocs.length}`
RECURSIVE Digits(_)
Digits(n) == IF n < 10 THEN <<ToString(n)>> ELSE Digits(n \div 10) \o <<ToString(n % 10)>>

\* mutant: the count line is printed without the bold markers
CountLine_plain(n) == <<"Key Documents Found:", " ">> \o Digits(n) \o <<"\n">>

\* `**Key Documents Found:** ${keyDocs.length}\n`
CountLine(n) == <<"**", "Key Documents Found:", "**", " ">> \o Digits(n) \o <<"\n">>

\* n is keyDocs.length; the document lines (at most five) are left out
processPhase1(n) ==
  <<"## Phase 1: Conceptual Understanding", "\n", "\n">>
    \o CountLine(n)
    \o (IF n > 0 THEN <<"\n", "**", "Document Analysis:", "**", "\n",
                        "\n", "**", "Project Understanding:", "**", "\n">>
        ELSE <<"\n", "**", "Note:", "**", " ", "No key documentation files found.", "\n">>)

\* the substrings generateComprehensiveReport searches the conceptual text for
SearchedInConceptual ==
  [name \in {"Key Documents Found:", "Key Documents Found: 0"} |->
     IF name = "Key Documents Found:" THEN <<"Key Documents Found:">>
     ELSE <<"Key Documents Found:", " ", "0">>]

\* the searched substrings a text contains
Marks(text) ==
  {name \in DOMAIN SearchedInConceptual : includes(text, SearchedInConceptual[name])}

(***************************************************************************)
(* The executive summary of generateComprehensiveReport.  The findings     *)
(* text of a record is read through includes()/match() only; here a text   *)
(* is the set of the searched substrings it contains.                      *)
(***************************************************************************)
\* mutant: record.findings.includes(text), a TypeError on undefined
OptionalIncludes_plain(record, text) ==
  [threw |-> record = NotFound,
   value |-> IF record = NotFound THEN "undefined"
             ELSE IF text \in record.findings.marks THEN "true" ELSE "false"]

\* record?.findings.includes(text): undefined when there is no record
OptionalIncludes(record, text) ==
  [threw |-> FALSE,
   value |-> IF record = NotFound THEN "undefined"
             ELSE IF text \in record.findings.marks THEN "true" ELSE "false"]

Truthy(access) == access.value = "true"

\* lines 297-386: what the summary derives and whether an access threw
ExecutiveSummary(history) ==
  LET conceptualAnalysis == Find(history, "conceptual")
      structuralAnalysis == Find(history, "structural")
      codeAnalysis       == Find(history, "analysis")
      isNode       == OptionalIncludes(structuralAnalysis, "Node.js/JavaScript")
      isPython     == OptionalIncludes(structuralAnalysis, "Python")
      docsLine     == OptionalIncludes(conceptualAnalysis, "Key Documents Found:")
      docsZero     == OptionalIncludes(conceptualAnalysis, "Key Documents Found: 0")
      srcDir       == OptionalIncludes(structuralAnalysis, "src/")
      standardSrc  == OptionalIncludes(structuralAnalysis, "Standard source code organization")
      packageJson  == OptionalIncludes(structuralAnalysis, "package.json")
      testing      == OptionalIncludes(codeAnalysis, "Testing")
      async        == OptionalIncludes(codeAnalysis, "Async/Promises")
      \* the right operand of && is evaluated only when the left one is truthy
      evaluated    == {isNode, srcDir, packageJson, docsLine, testing, async}
                        \cup (IF Truthy(isNode) THEN {} ELSE {isPython})
                        \cup (IF Truthy(docsLine) THEN {docsZero} ELSE {})
                        \cup (IF Truthy(srcDir) THEN {} ELSE {standardSrc})
      hasKeyDocs   == Truthy(docsLine) /\ ~Truthy(docsZero)
      hasStructure == Truthy(srcDir) \/ Truthy(standardSrc)
  IN [threw         |-> \E access \in evaluated : access.threw,
      projectType   |-> IF Truthy(isNode) THEN "Node.js/TypeScript Application"
                        ELSE IF Truthy(isPython) THEN "Python Application"
                        ELSE "Multi-language or Unknown Type",
      documentation |-> IF hasKeyDocs THEN "Well Documented" ELSE "Needs Improvement",
      organization  |-> IF hasStructure THEN "Well Organized" ELSE "Could Be Improved",
      npmInstall    |-> Truthy(packageJson),
      indicators    |-> (IF hasKeyDocs THEN {"Good Documentation"} ELSE {})
                          \cup (IF hasStructure THEN {"Organized Structure"} ELSE {})
                          \cup (IF Truthy(testing) THEN {"Testing Framework"} ELSE {})
                          \cup (IF Truthy(async) THEN {"Modern Async Patterns"} ELSE {}),
      warnings      |-> (IF hasKeyDocs THEN {} ELSE {"Missing Key Documentation"})
                          \cup (IF hasStructure THEN {} ELSE {"Unclear Project Organization"})
                          \cup (IF Truthy(testing) THEN {} ELSE {"No Testing Framework Detected"}),
      phasesCompleted |-> Len(history)]

\* the indicator and warning lines in the order the report prints them
IndicatorLines ==
  <<"Good Documentation", "Organized Structure", "Testing Framework", "Modern Async Patterns">>
WarningLines ==
  <<"Missing Key Documentation", "Unclear Project Organization", "No Testing Framework Detected">>

\* the sections of the report text; a call that threw returns no text
ComprehensiveText(history) ==
  IF ExecutiveSummary(history).threw THEN <<>>
  ELSE <<"COMPREHENSIVE CODEBASE ANALYSIS REPORT", "EXECUTIVE SUMMARY",
         ExecutiveSummary(history).projectType, ExecutiveSummary(history).documentation,
         ExecutiveSummary(history).organization, "DEVELOPER ONBOARDING GUIDE",
         "PROJECT HEALTH INDICATORS">>
       \o SelectSeq(IndicatorLines, LAMBDA line : line \in ExecutiveSummary(history).indicators)
       \o SelectSeq(WarningLines, LAMBDA line : line \in ExecutiveSummary(history).warnings)
       \o <<"DETAILED FINDINGS SUMMARY">>

\* the sections of the Synthesis text: header, summary, one line per recent
\* record, the fixed recommendations and next steps
SynthesisText(findings) ==
  <<"Phase 4: Synthesis and Reporting", "Project Summary", "Key Findings">>
    \o findings.recent
    \o <<"Recommendations for New Developers", "Next Steps">>

NoReport == [renderer |-> "none", threw |-> FALSE, text |-> <<>>, completed |-> 0]

(***************************************************************************)
(* SpecRoot: findRepositoryRoot on every filesystem over MarkerChoices     *)
(***************************************************************************)
MarkerChoices == {".git", "package.json", "README.md"}
NoMarkers     == [d \in Dirs |-> {}]

StartPaths ==
  {AbsPath(d) : d \in Dirs \cup Files} \cup
  {RelPath(<<>>), RelPath(<<"b">>), RelPath(<<"b", "c">>), RelPath(<<"b", "f.ts">>)}

ServerIdle ==
  /\ analysisHistory = <<>>
  /\ calls = [c \in Calls |-> IdleCall]
  /\ results = [c \in Calls |-> NoResult]

StructIdle ==
  /\ fileContents = <<>>
  /\ structure = NoStructure

RootIdle ==
  /\ markers = NoMarkers
  /\ rootStart = Undefined
  /\ rootResult = Undefined

DocIdle ==
  /\ docScan = [tree |-> Dir(<<"project">>, <<>>), fault |-> NoFault]
  /\ keyDocs = NoKeyDocs

ImportIdle ==
  /\ source = [content |-> <<>>, extension |-> ""]
  /\ imports = [called |-> FALSE, list |-> <<>>]

AggIdle ==
  /\ codeFiles = <<>>
  /\ analysisResult = [called |-> FALSE, result |-> NoAnalysis]

ReportIdle ==
  /\ reportHistory = <<>>
  /\ reportOut = NoReport

TagIdle ==
  /\ tagSource = [statements |-> <<>>, content |-> <<>>, filePath |-> <<>>]
  /\ tags = NoTags

WalkIdle == walk = NoWalk

PureIdle == DocIdle /\ ImportIdle /\ AggIdle /\ ReportIdle /\ TagIdle /\ WalkIdle

InitRoot ==
  /\ markers \in [Dirs -> SUBSET MarkerChoices]
  /\ rootStart = Undefined
  /\ rootResult = Undefined
  /\ StructIdle
  /\ PureIdle
  /\ ServerIdle

CallFindRepositoryRoot(p) ==
  /\ rootStart' = p
  /\ rootResult' = findRepositoryRoot(markers, p)
  /\ UNCHANGED <<markers, structVars, pureVars, serverVars>>

NextRoot == \E p \in StartPaths : CallFindRepositoryRoot(p)

SpecRoot == InitRoot /\ [][NextRoot]_vars

(***************************************************************************)
(* SpecStructure: buildCodeStructureMap on bounded FileContent lists       *)
(***************************************************************************)
MaxFiles    == 3
LineChoices == {1, 999, 1000, 4000, 4001}
ExtChoices  == {".ts", ""}

\* the i-th file read: its path is distinct, its size that of 40-character lines
FileRecords(i) ==
  {[path |-> <<"f", i>>, lines |-> n, size |-> 40 * n, extension |-> e] :
     n \in LineChoices, e \in ExtChoices}

RECURSIVE ListsOfLength(_)
ListsOfLength(k) ==
  IF k = 0 THEN {<<>>}
  ELSE {Append(fs, f) : fs \in ListsOfLength(k - 1), f \in FileRecords(k)}

FileLists == UNION {ListsOfLength(k) : k \in 0..MaxFiles}

InitStructure ==
  /\ fileContents \in FileLists
  /\ structure = NoStructure
  /\ markers = NoMarkers
  /\ rootStart = Undefined
  /\ rootResult = Undefined
  /\ PureIdle
  /\ ServerIdle

\* the call sorts its argument in place before slicing the largest files
CallBuildCodeStructureMap ==
  /\ structure.complexity = "unknown"
  /\ structure' = buildCodeStructureMap(fileContents)
  /\ fileContents' = SortByLinesDesc(fileContents)
  /\ UNCHANGED <<markers, rootVars, pureVars, serverVars>>

NextStructure == CallBuildCodeStructureMap

SpecStructure == InitStructure /\ [][NextStructure]_vars

(***************************************************************************)
(* SpecRanking: buildCodeStructureMap on lists of up to MaxRanked files    *)
(* with few distinct line counts, so that more than five files and files   *)
(* with equal line counts occur                                            *)
(***************************************************************************)
MaxRanked   == 6
RankedLines == {10, 20, 30}

RankedRecords(i) ==
  {[path |-> <<"f", i>>, lines |-> n, size |-> 40 * n, extension |-> ".ts"] : n \in RankedLines}

RECURSIVE RankedListsOfLength(_)
RankedListsOfLength(k) ==
  IF k = 0 THEN {<<>>}
  ELSE {Append(fs, f) : fs \in RankedListsOfLength(k - 1), f \in RankedRecords(k)}

RankedLists == UNION {RankedListsOfLength(k) : k \in 0..MaxRanked}

InitRanking ==
  /\ fileContents \in RankedLists
  /\ structure = NoStructure
  /\ RootIdle
  /\ PureIdle
  /\ ServerIdle

NextRanking == CallBuildCodeStructureMap

SpecRanking == InitRanking /\ [][NextRanking]_vars

(***************************************************************************)
(* SpecDocs: findKeyDocs on chains of directories.  The scanned directory  *)
(* holds a chain of `depth` nested directories with a leaf file in the     *)
(* innermost one, and optionally DESIGN.md listed before or after the      *)
(* chain; one directory of the chain may carry a special name.             *)
(***************************************************************************)
MaxDepth     == 12
LeafNames    == {README_md, readme_MD, README_Md, notes_md, my_claude_md}
SpecialNames == SkippedDirectories \cup {<<"Build">>}
Arrangements == {"chain only", "file first", "chain first"}

\* the names of the chain, level by level below the scanned directory
ChainNames(depth, special, name) ==
  [i \in 1..depth |-> IF i = special THEN name ELSE <<"src">>]

RECURSIVE Chain(_, _)
Chain(names, leafItems) ==
  IF names = <<>> THEN leafItems
  ELSE <<Dir(Head(names), Chain(Tail(names), leafItems))>>

Tree(names, leaf, arrangement) ==
  Dir(<<"project">>,
      CASE arrangement = "chain only"  -> Chain(names, <<File(leaf)>>)
        [] arrangement = "file first"  -> <<File(DESIGN_md)>> \o Chain(names, <<File(leaf)>>)
        [] arrangement = "chain first" -> Chain(names, <<File(leaf)>>) \o <<File(DESIGN_md)>>)

\* the fs call that fails: none, the listing of the scanned directory, of the
\* first or of the innermost directory, or the stat of the first directory,
\* of the leaf file or of DESIGN.md
Faults(names, leaf) ==
  {NoFault, ReaddirFault(<<>>), ReaddirFault(names), StatFault(Append(names, leaf)),
   StatFault(<<DESIGN_md>>)}
    \cup (IF names = <<>> THEN {}
          ELSE {ReaddirFault(<<names[1]>>), StatFault(<<names[1]>>)})

InitDocs ==
  /\ \E depth \in 0..MaxDepth :
       \E special \in 0..depth, name \in SpecialNames, leaf \in LeafNames,
          arrangement \in Arrangements :
         /\ special = 0 => name = <<"Build">>
         /\ \E fault \in Faults(ChainNames(depth, special, name), leaf) :
              docScan = [tree  |-> Tree(ChainNames(depth, special, name), leaf, arrangement),
                         fault |-> fault]
  /\ keyDocs = NoKeyDocs
  /\ RootIdle
  /\ StructIdle
  /\ ImportIdle /\ AggIdle /\ ReportIdle /\ TagIdle /\ WalkIdle
  /\ ServerIdle

CallFindKeyDocs ==
  /\ ~keyDocs.called
  /\ keyDocs' = findKeyDocs(docScan.tree, docScan.fault)
  /\ UNCHANGED <<docScan, markers, rootVars, structVars, importVars, aggVars,
                 reportVars, tagVars, walk, serverVars>>

NextDocs == CallFindKeyDocs

SpecDocs == InitDocs /\ [][NextDocs]_vars

(***************************************************************************)
(* SpecImports: extractImports on contents of up to MaxStatements          *)
(* statements                                                              *)
(***************************************************************************)
MaxStatements == 2

\* "./local", "left-pad", "pkg", "../up" and ".env"
Modules ==
  {<<".", "/", "l", "o", "c", "a", "l">>, <<"l", "e", "f", "t", "-", "p", "a", "d">>,
   <<"p", "k", "g">>, <<".", ".", "/", "u", "p">>, <<".", "e", "n", "v">>}

StatementForms   == {"import_from", "require_call", "py_from", "py_import", "include"}
Statements       == {Statement(form, <<"x">>, module) : form \in StatementForms, module \in Modules}
ImportExtensions == {".js", ".ts", ".tsx", ".jsx", ".py", ".c", ".h", ".md", ".TS", ""}

RECURSIVE ContentsOfLength(_)
ContentsOfLength(k) ==
  IF k = 0 THEN {<<>>}
  ELSE {Append(content, st) : content \in ContentsOfLength(k - 1), st \in Statements}

Contents == UNION {ContentsOfLength(k) : k \in 0..MaxStatements}

InitImports ==
  /\ source \in [content : Contents, extension : ImportExtensions]
  /\ imports = [called |-> FALSE, list |-> <<>>]
  /\ RootIdle
  /\ StructIdle
  /\ DocIdle /\ AggIdle /\ ReportIdle /\ TagIdle /\ WalkIdle
  /\ ServerIdle

CallExtractImports ==
  /\ ~imports.called
  /\ imports' = [called |-> TRUE, list |-> extractImports(source.content, source.extension)]
  /\ UNCHANGED <<source, markers, rootVars, structVars, docVars, aggVars,
                 reportVars, tagVars, walk, serverVars>>

NextImports == CallExtractImports

SpecImports == InitImports /\ [][NextImports]_vars

(***************************************************************************)
(* SpecAggregate: analyzeCodeFiles on lists of up to MaxSources files      *)
(***************************************************************************)
MaxSources == 3

express == <<"e", "x", "p", "r", "e", "s", "s">>
pkg     == <<"p", "k", "g">>

\* what the per-file passes return on three kinds of file: a server file
\* that requires express twice and declares main twice, a helper that shares
\* values with it, and a file on which every pass returns nothing
FileProfiles ==
  {[lines |-> 999, size |-> 39960, extension |-> ".js",
    imports |-> <<express, express>>, entryPoint |-> TRUE,
    patterns |-> <<"Functions", "Express.js/Web Server">>,
    elements |-> <<[type |-> "function", name |-> "main"], [type |-> "function", name |-> "main"]>>,
    architecture |-> <<"Server Architecture", "Logging">>],
   [lines |-> 1, size |-> 40, extension |-> ".ts",
    imports |-> <<pkg, express>>, entryPoint |-> FALSE,
    patterns |-> <<"Functions">>,
    elements |-> <<[type |-> "function", name |-> "main"]>>,
    architecture |-> <<"Logging">>],
   [lines |-> 1, size |-> 0, extension |-> ".json",
    imports |-> <<>>, entryPoint |-> FALSE, patterns |-> <<>>, elements |-> <<>>,
    architecture |-> <<>>]}

\* the i-th file findCodeFiles returns: its path is distinct
SourceFiles(i) ==
  {[path |-> <<"f", i>>, readable |-> r, lines |-> profile.lines, size |-> profile.size,
    extension |-> profile.extension, imports |-> profile.imports,
    entryPoint |-> profile.entryPoint, patterns |-> profile.patterns,
    elements |-> profile.elements, architecture |-> profile.architecture] :
     profile \in FileProfiles, r \in BOOLEAN}

RECURSIVE SourceListsOfLength(_)
SourceListsOfLength(k) ==
  IF k = 0 THEN {<<>>}
  ELSE {Append(files, file) : files \in SourceListsOfLength(k - 1), file \in SourceFiles(k)}

SourceLists == UNION {SourceListsOfLength(k) : k \in 0..MaxSources}

InitAggregate ==
  /\ codeFiles \in SourceLists
  /\ analysisResult = [called |-> FALSE, result |-> NoAnalysis]
  /\ RootIdle
  /\ StructIdle
  /\ DocIdle /\ ImportIdle /\ ReportIdle /\ TagIdle /\ WalkIdle
  /\ ServerIdle

CallAnalyzeCodeFiles ==
  /\ ~analysisResult.called
  /\ analysisResult' = [called |-> TRUE, result |-> analyzeCodeFiles(codeFiles)]
  /\ UNCHANGED <<codeFiles, markers, rootVars, structVars, docVars, importVars,
                 reportVars, tagVars, walk, serverVars>>

NextAggregate == CallAnalyzeCodeFiles

SpecAggregate == InitAggregate /\ [][NextAggregate]_vars

(***************************************************************************)
(* SpecTags: detectPatterns and analyzeArchitecture on JavaScript files of *)
(* up to MaxFragments statements                                           *)
(***************************************************************************)
MaxFragments == 3

\* express = require('express') ; app = require('express')() ;
\* app = express() ; app.get('/', handler) ; app.use(handler) ;
\* server = http.createServer(app) ; console.log(port)
Fragments ==
  [requireExpress     |-> <<"express", "=", "require", "(", "'", "express", "'", ")">>,
   requireExpressCall |-> <<"app", "=", "require", "(", "'", "express", "'", ")", "(", ")">>,
   expressCall        |-> <<"app", "=", "express", "(", ")">>,
   appGet             |-> <<"app", ".", "get", "(", "'", "/", "'", ",", "handler", ")">>,
   appUse             |-> <<"app", ".", "use", "(", "handler", ")">>,
   createServer       |-> <<"server", "=", "http", ".", "createServer", "(", "app", ")">>,
   consoleLog         |-> <<"console", ".", "log", "(", "port", ")">>]

FragmentNames == DOMAIN Fragments

\* the statements of a file, one after the other, each closed by ";"
RECURSIVE Join(_)
Join(statements) ==
  IF statements = <<>> THEN <<>>
  ELSE Fragments[Head(statements)] \o <<";">> \o Join(Tail(statements))

RECURSIVE StatementListsOfLength(_)
StatementListsOfLength(k) ==
  IF k = 0 THEN {<<>>}
  ELSE {Append(statements, name) : statements \in StatementListsOfLength(k - 1),
                                   name \in FragmentNames}

StatementLists == UNION {StatementListsOfLength(k) : k \in 0..MaxFragments}

InitTags ==
  /\ \E statements \in StatementLists :
       tagSource = [statements |-> statements, content |-> Join(statements),
                    filePath |-> <<"src", "/", "index", ".", "js">>]
  /\ tags = NoTags
  /\ RootIdle
  /\ StructIdle
  /\ DocIdle /\ ImportIdle /\ AggIdle /\ ReportIdle /\ WalkIdle
  /\ ServerIdle

\* the two passes of the loop body of analyzeCodeFiles on one file
CallDetectAndAnalyze ==
  /\ ~tags.called
  /\ tags' = [called |-> TRUE,
              patterns |-> detectPatterns(tagSource.content, tagSource.filePath),
              architecture |-> analyzeArchitecture(tagSource.content, tagSource.filePath)]
  /\ UNCHANGED <<tagSource, markers, rootVars, structVars, docVars, importVars, aggVars,
                 reportVars, walk, serverVars>>

NextTags == CallDetectAndAnalyze

SpecTags == InitTags /\ [][NextTags]_vars

(***************************************************************************)
(* SpecWalk: the scans of findKeyDocs and findCodeFiles on directory       *)
(* graphs of two directories r (the project) and a, with links back to r   *)
(* and to a, and the while loop of findRepositoryRoot on the filesystem    *)
(* of SpecRoot                                                             *)
(***************************************************************************)
MaxEntries == 2
ScanKinds  == {"findKeyDocs", "findCodeFiles"}

\* what r can hold: a source file, a link to r itself, and a under the name
\* src or target
RootEntries == {FileEntry, DirEntry("loop", "r"), DirEntry("src", "a"), DirEntry("target", "a")}

\* listings of k entries; no two entries of a directory have the same name
RECURSIVE EntryListsOfLength(_)
EntryListsOfLength(k) ==
  IF k = 0 THEN {<<>>}
  ELSE UNION {{Append(entries, e) :
                 e \in RootEntries \ {entries[i] : i \in 1..Len(entries)}} :
              entries \in EntryListsOfLength(k - 1)}

EntryLists == UNION {EntryListsOfLength(k) : k \in 0..MaxEntries}

\* what a can hold: a link up to r, or a file
SubEntries == {<<DirEntry("up", "r")>>, <<FileEntry>>}

InitWalk ==
  /\ \/ /\ \E kind \in ScanKinds, inRoot \in EntryLists, inSub \in SubEntries :
             walk = [NoWalk EXCEPT !.kind = kind, !.items = [r |-> inRoot, a |-> inSub]]
        /\ markers = NoMarkers
     \/ /\ \E start \in StartPaths :
             walk = [NoWalk EXCEPT !.kind = "findRepositoryRoot", !.start = start]
        /\ markers \in [Dirs -> SUBSET {".git"}]
  /\ rootStart = Undefined
  /\ rootResult = Undefined
  /\ StructIdle
  /\ DocIdle /\ ImportIdle /\ AggIdle /\ ReportIdle /\ TagIdle
  /\ ServerIdle

WalkFrame ==
  UNCHANGED <<markers, rootVars, structVars, docVars, importVars, aggVars, reportVars,
              tagVars, serverVars>>

\* scanDir(projectPath) / walkDir(projectPath): the first call, at depth 0
StartScan ==
  /\ walk.pc = "idle"
  /\ walk.kind \in ScanKinds
  /\ walk' = CallScan([walk EXCEPT !.pc = "scanning"], "r", 0)
  /\ WalkFrame

\* one turn of the for loop in the innermost call: a directory that is not on
\* the skip list is scanned one level deeper, a file is tested and passed
VisitEntry ==
  /\ walk.pc = "scanning"
  /\ walk.stack # <<>>
  /\ LET top   == walk.stack[Len(walk.stack)]
         entry == walk.items[top.dir][top.next]
         moved == [walk EXCEPT !.stack[Len(walk.stack)].next = @ + 1]
     IN /\ top.next <= Len(walk.items[top.dir])
        /\ walk' = IF entry.kind = "dir" /\ entry.name \notin SkipList(walk.kind)
                   THEN CallScan(moved, entry.to, top.depth + 1)
                   ELSE moved
  /\ WalkFrame

\* the for loop of the innermost call is over: the call returns, and the scan
\* is finished when it was the first call
ReturnFromScan ==
  /\ walk.pc = "scanning"
  /\ walk.stack # <<>>
  /\ LET top == walk.stack[Len(walk.stack)]
     IN /\ top.next > Len(walk.items[top.dir])
        /\ walk' = [walk EXCEPT !.stack = SubSeq(@, 1, Len(@) - 1),
                                !.pc = IF Len(walk.stack) = 1 THEN "done" ELSE "scanning"]
  /\ WalkFrame

\* let currentPath = path.resolve(startPath)
StartWalkUp ==
  /\ walk.pc = "idle"
  /\ walk.kind = "findRepositoryRoot"
  /\ walk' = [walk EXCEPT !.pc = "walking", !.currentPath = Resolve(walk.start)]
  /\ WalkFrame

\* the loop condition fails at the filesystem root: return startPath
LeaveWalkUp ==
  /\ walk.pc = "walking"
  /\ walk.currentPath = rootPath
  /\ walk' = [walk EXCEPT !.pc = "done", !.result = walk.start]
  /\ WalkFrame

\* one turn of the while loop: return on a marker, else go to the parent
WalkUpStep ==
  /\ walk.pc = "walking"
  /\ walk.currentPath # rootPath
  /\ walk' =
       IF HasMarker(markers, walk.currentPath)
         THEN [walk EXCEPT !.pc = "done", !.steps = @ + 1, !.result = AbsPath(walk.currentPath)]
       ELSE IF Dirname(walk.currentPath) = walk.currentPath
         THEN [walk EXCEPT !.pc = "done", !.steps = @ + 1, !.result = walk.start]
       ELSE [walk EXCEPT !.steps = @ + 1, !.currentPath = Dirname(@)]
  /\ WalkFrame

NextWalk ==
  \/ StartScan
  \/ VisitEntry
  \/ ReturnFromScan
  \/ StartWalkUp
  \/ LeaveWalkUp
  \/ WalkUpStep

SpecWalk == InitWalk /\ [][NextWalk]_vars

\* a traversal is one synchronous call: once started it keeps running
SpecWalkLive == SpecWalk /\ WF_vars(NextWalk)

(***************************************************************************)
(* SpecReport: processPhase4 and generateComprehensiveReport on histories  *)
(* of up to MaxHistory records, the empty history included                 *)
(***************************************************************************)
MaxHistory == 2

\* findings texts by the searched substrings they contain
ReportTexts ==
  {{}, {"Key Documents Found:"}, {"Key Documents Found:", "Key Documents Found: 0"},
   {"Node.js/JavaScript", "package.json", "src/"}, {"Testing", "Async/Promises"}}

\* numbers of key documents
DocCounts == {0, 1, 10}

\* records with arbitrary texts, and conceptual records as processPhase1
\* renders them; documents holds the keyDocs.length the text was rendered
\* from (nothing for an arbitrary text), and call notes that no invocation of
\* the server appended the record
ReportRecords ==
  {PhaseRecord(AbsPath(<<"a", "b">>), phase,
               [marks |-> text, documents |-> {}, call |-> 0]) :
     phase \in FourPhases, text \in ReportTexts}
  \cup {PhaseRecord(AbsPath(<<"a", "b">>), "conceptual",
                    [marks |-> Marks(processPhase1(n)), documents |-> {n}, call |-> 0]) :
          n \in DocCounts}

RECURSIVE HistoriesOfLength(_)
HistoriesOfLength(k) ==
  IF k = 0 THEN {<<>>}
  ELSE {Append(history, record) : history \in HistoriesOfLength(k - 1), record \in ReportRecords}

ReportHistories == UNION {HistoriesOfLength(k) : k \in 0..MaxHistory}

InitReport ==
  /\ reportHistory \in ReportHistories
  /\ reportOut = NoReport
  /\ RootIdle
  /\ StructIdle
  /\ DocIdle /\ ImportIdle /\ AggIdle /\ TagIdle /\ WalkIdle
  /\ ServerIdle

ReportFrame ==
  UNCHANGED <<reportHistory, markers, rootVars, structVars, docVars, importVars,
              aggVars, tagVars, walk, serverVars>>

CallProcessPhase4 ==
  /\ reportOut.renderer = "none"
  /\ LET findings == processPhase4(0, AbsPath(<<"a", "b">>), reportHistory)
     IN reportOut' = [renderer |-> "synthesis", threw |-> FALSE,
                      text |-> SynthesisText(findings), completed |-> findings.completed]
  /\ ReportFrame

CallGenerateComprehensiveReport ==
  /\ reportOut.renderer = "none"
  /\ reportOut' = [renderer |-> "comprehensive",
                   threw |-> ExecutiveSummary(reportHistory).threw,
                   text |-> ComprehensiveText(reportHistory),
                   completed |-> ExecutiveSummary(reportHistory).phasesCompleted]
  /\ ReportFrame

NextReport ==
  \/ CallProcessPhase4
  \/ CallGenerateComprehensiveReport

SpecReport == InitReport /\ [][NextReport]_vars

(***************************************************************************)
(* Spec: invocations of processCodebaseAnalysis on one server object       *)
(***************************************************************************)
\* without markers the root of a path is the path as given; with .git in /a
\* and README.md in /a/b the root of /a/b is /a/b
ServerFilesystems ==
  {NoMarkers,
   [NoMarkers EXCEPT ![<<"a">>] = {".git"}, ![<<"a", "b">>] = {"README.md"}]}

\* paths that exist (the root itself given absolute, given relative to /a, and
\* a directory below the root) and paths that fail the check (absent, empty,
\* not existing)
ValidPaths   == {AbsPath(<<"a", "b">>), RelPath(<<"b">>), AbsPath(<<"a", "b", "c">>)}
InvalidPaths == {Undefined, EmptyPath, AbsPath(<<"x">>)}
ServerPhases == {NoPhase} \cup {PhaseArg(t) : t \in FourPhases \cup {"all", "deploy"}}
Inputs       ==
  [projectPath : ValidPaths, phase : ServerPhases] \cup
  [projectPath : InvalidPaths, phase : {NoPhase, PhaseArg("analysis")}]

Init ==
  /\ markers \in ServerFilesystems
  /\ rootStart = Undefined
  /\ rootResult = Undefined
  /\ StructIdle
  /\ PureIdle
  /\ ServerIdle

Frame == UNCHANGED <<markers, rootVars, structVars, pureVars>>

\* the source files of the project: one file, which can be read or not
ProjectFiles(readOk) ==
  <<[path |-> <<"f", 1>>, readable |-> readOk, lines |-> 1, size |-> 40, extension |-> ".ts",
     imports |-> <<>>, entryPoint |-> FALSE, patterns |-> <<>>, elements |-> <<>>,
     architecture |-> <<>>]>>

\* mutant: no renderer ever throws, the loop goes on with whatever text it got
Rendered_neverThrows(call, c, phase, readOk, history) ==
  [call EXCEPT !.pc = "rendered", !.phase = phase, !.thrown = FALSE,
               !.readFailed = @ \/ (phase = "analysis" /\ ~readOk),
               !.findings = RenderPhase(c, phase, call.repositoryRoot, history)]

\* the renderer of phase is called; phase 3 is handed what analyzeCodeFiles
\* returns and throws when a source file could not be read
Rendered(call, c, phase, readOk, history) ==
  LET threw == phase = "analysis" /\ processPhase3Throws(analyzeCodeFiles(ProjectFiles(readOk)))
  IN [call EXCEPT !.pc = "rendered", !.phase = phase,
                  !.thrown = threw,
                  !.readFailed = @ \/ (phase = "analysis" /\ ~readOk),
                  !.findings = IF threw THEN NoFindings
                               ELSE RenderPhase(c, phase, call.repositoryRoot, history)]

\* the invocations whose promise is still pending
Inflight == {d \in Calls : calls[d].pc \notin {"idle", "done"}}

\* invocations are numbered in the order they arrive
MayInvoke(c) ==
  /\ calls[c].pc = "idle"
  /\ \A d \in Calls : d < c => calls[d].pc # "idle"

Entered(input) ==
  [IdleCall EXCEPT !.input = input, !.requestedPhase = RequestedPhase(input.phase)]

\* lines 104-110, 198-208: the path check fails, the catch block answers
InvokeInvalidPath(c, input) ==
  /\ MayInvoke(c)
  /\ InvalidPath(markers, input.projectPath)
  /\ calls' = [calls EXCEPT ![c] = Settle(Entered(input))]
  /\ results' = [results EXCEPT ![c] = FailureEnvelope("Invalid or non-existent project path")]
  /\ UNCHANGED analysisHistory
  /\ Frame

\* lines 104-113: the path check passes, the root is resolved
InvokeValidPath(c, input) ==
  /\ MayInvoke(c)
  /\ ~InvalidPath(markers, input.projectPath)
  /\ calls' = [calls EXCEPT ![c] =
                 [Entered(input) EXCEPT !.pc = "resolved",
                    !.repositoryRoot = findRepositoryRoot(markers, input.projectPath)]]
  /\ UNCHANGED <<analysisHistory, results>>
  /\ Frame

\* lines 123-124, 237-238: runSinglePhase throws on an unknown phase; its
\* promise is returned without await, so the rejection passes the catch block
DispatchUnknownPhase(c) ==
  /\ calls[c].pc = "resolved"
  /\ calls[c].requestedPhase \notin FourPhases \cup {"all"}
  /\ calls' = [calls EXCEPT ![c] = Settle(calls[c])]
  /\ results' = [results EXCEPT ![c] = Rejected("Invalid phase")]
  /\ UNCHANGED analysisHistory
  /\ Frame

\* lines 123-124, 216-235: runSinglePhase calls the renderer of the phase
DispatchSinglePhase(c, readOk) ==
  /\ calls[c].pc = "resolved"
  /\ calls[c].requestedPhase \in FourPhases
  /\ calls' = [calls EXCEPT ![c] =
                 Rendered(calls[c], c, calls[c].requestedPhase, readOk, analysisHistory)]
  /\ UNCHANGED <<analysisHistory, results>>
  /\ Frame

\* lines 128-142: the loop over allPhases starts with its first phase
DispatchAllPhases(c, readOk) ==
  /\ calls[c].pc = "resolved"
  /\ calls[c].requestedPhase = "all"
  /\ calls' = [calls EXCEPT ![c] =
                 Rendered(calls[c], c, allPhases[1], readOk, analysisHistory)]
  /\ UNCHANGED <<analysisHistory, results>>
  /\ Frame

\* the renderer threw inside runSinglePhase: the promise is rejected
ThrowSinglePhase(c) ==
  /\ calls[c].pc = "rendered"
  /\ calls[c].thrown
  /\ calls[c].requestedPhase # "all"
  /\ calls' = [calls EXCEPT ![c] = Settle(calls[c])]
  /\ results' = [results EXCEPT ![c] = Rejected("TypeError")]
  /\ UNCHANGED analysisHistory
  /\ Frame

\* the renderer threw inside the loop: awaited in the try block, caught
ThrowAllPhases(c) ==
  /\ calls[c].pc = "rendered"
  /\ calls[c].thrown
  /\ calls[c].requestedPhase = "all"
  /\ calls' = [calls EXCEPT ![c] = Settle(calls[c])]
  /\ results' = [results EXCEPT ![c] = FailureEnvelope("TypeError")]
  /\ UNCHANGED analysisHistory
  /\ Frame

\* lines 241-270: runSinglePhase records the phase and returns its envelope
AppendSinglePhase(c) ==
  /\ calls[c].pc = "rendered"
  /\ ~calls[c].thrown
  /\ calls[c].requestedPhase # "all"
  /\ LET call     == calls[c]
         analysis == PhaseRecord(call.repositoryRoot, call.phase, call.findings)
     IN /\ analysisHistory' = Push(analysisHistory, analysis)
        /\ results' = [results EXCEPT ![c] =
             SingleEnvelope(call.phase, call.repositoryRoot,
                            IfMoved(call.repositoryRoot, call.input.projectPath, call.repositoryRoot),
                            IfMoved(call.repositoryRoot, call.input.projectPath, call.input.projectPath),
                            call.findings, analysis.nextPhaseNeeded, Len(analysisHistory'))]
        /\ calls' = [calls EXCEPT ![c] = Settle(call)]
  /\ Frame

PhaseIndex(phase) == CHOOSE i \in 1..Len(allPhases) : allPhases[i] = phase

\* lines 160-169 and the next turn of the loop: the phase is recorded and the
\* renderer of the following phase is called on the history as it then is
AppendAndContinue(c, readOk) ==
  /\ calls[c].pc = "rendered"
  /\ ~calls[c].thrown
  /\ calls[c].requestedPhase = "all"
  /\ PhaseIndex(calls[c].phase) < Len(allPhases)
  /\ LET call     == calls[c]
         analysis == PhaseRecord(call.repositoryRoot, call.phase, call.findings)
         report   == Append(call.comprehensiveReport, call.findings)
     IN /\ analysisHistory' = Push(analysisHistory, analysis)
        /\ calls' = [calls EXCEPT ![c] =
             Rendered([call EXCEPT !.comprehensiveReport = report], c,
                      allPhases[PhaseIndex(call.phase) + 1], readOk, analysisHistory')]
  /\ UNCHANGED results
  /\ Frame

\* lines 160-178: the last phase is recorded and the comprehensive report is
\* generated from the history
AppendAndReport(c) ==
  /\ calls[c].pc = "rendered"
  /\ ~calls[c].thrown
  /\ calls[c].requestedPhase = "all"
  /\ PhaseIndex(calls[c].phase) = Len(allPhases)
  /\ LET call     == calls[c]
         analysis == PhaseRecord(call.repositoryRoot, call.phase, call.findings)
         report   == Append(call.comprehensiveReport, call.findings)
     IN /\ analysisHistory' = Push(analysisHistory, analysis)
        /\ calls' = [calls EXCEPT ![c] =
             [call EXCEPT !.pc = "reported", !.comprehensiveReport = report,
                          !.finalReport = generateComprehensiveReport(
                             c, call.repositoryRoot, report, analysisHistory')]]
  /\ UNCHANGED results
  /\ Frame

\* lines 182-196: the comprehensive envelope is returned
ReturnComprehensive(c) ==
  /\ calls[c].pc = "reported"
  /\ results' = [results EXCEPT ![c] =
       ComprehensiveEnvelope(calls[c].repositoryRoot, calls[c].repositoryRoot,
                             calls[c].input.projectPath, calls[c].finalReport,
                             Len(analysisHistory))]
  /\ calls' = [calls EXCEPT ![c] = Settle(calls[c])]
  /\ UNCHANGED analysisHistory
  /\ Frame

\* Spec: the dispatcher hands over a request when the previous one has been
\* answered (invocations are processed one after another)
Next ==
  \/ \E c \in Calls, input \in Inputs : Inflight = {} /\ InvokeInvalidPath(c, input)
  \/ \E c \in Calls, input \in Inputs : Inflight = {} /\ InvokeValidPath(c, input)
  \/ \E c \in Calls : DispatchUnknownPhase(c)
  \/ \E c \in Calls, readOk \in BOOLEAN : DispatchSinglePhase(c, readOk)
  \/ \E c \in Calls, readOk \in BOOLEAN : DispatchAllPhases(c, readOk)
  \/ \E c \in Calls : ThrowSinglePhase(c)
  \/ \E c \in Calls : ThrowAllPhases(c)
  \/ \E c \in Calls : AppendSinglePhase(c)
  \/ \E c \in Calls, readOk \in BOOLEAN : AppendAndContinue(c, readOk)
  \/ \E c \in Calls : AppendAndReport(c)
  \/ \E c \in Calls : ReturnComprehensive(c)

Spec == Init /\ [][Next]_vars

\* SpecOverlap: the dispatcher hands over a request while earlier ones are
\* still suspended at an await
NextOverlap ==
  \/ Next
  \/ \E c \in Calls, input \in Inputs : Inflight # {} /\ InvokeInvalidPath(c, input)
  \/ \E c \in Calls, input \in Inputs : Inflight # {} /\ InvokeValidPath(c, input)

SpecOverlap == Init /\ [][NextOverlap]_vars

(***************************************************************************)
(* Properties of findRepositoryRoot (checked under SpecRoot)               *)
(***************************************************************************)
Called == rootStart # Undefined

\* the directories examined by an upward walk: the start and all its ancestors
AncestorsOrSelf(d) == {SubSeq(d, 1, k) : k \in 0..Len(d)}
IsPrefix(d, e)     == Len(d) <= Len(e) /\ SubSeq(e, 1, Len(d)) = d

\* a directory of the filesystem that holds at least one marker
Marked(d) == d \in Dirs /\ markers[d] # {}

\* the marked directories on the way up from the start path
MarkedAbove      == {d \in AncestorsOrSelf(Resolve(rootStart)) : Marked(d)}
MarkedBelowRoot  == MarkedAbove \ {rootPath}
Nearest(S)       == CHOOSE d \in S : \A e \in S : Len(e) <= Len(d)

\* C7 (as stated): the result is the nearest directory, start included, that
\* holds any marker, whatever the markers are.
C7_NearestMarkedWins ==
  (Called /\ MarkedAbove # {}) => rootResult = AbsPath(Nearest(MarkedAbove))

\* C7 (amended): the result is the nearest directory strictly below the
\* filesystem root, start included, that holds any marker, whichever marker
\* it is; the filesystem root itself is never examined.
C7_NearestBelowRootWins ==
  (Called /\ MarkedBelowRoot # {}) => rootResult = AbsPath(Nearest(MarkedBelowRoot))

\* a nearer directory with only README.md beat a farther one holding .git
C7_Witness ==
  /\ Called
  /\ \E near \in MarkedBelowRoot, far \in MarkedBelowRoot :
       /\ Len(far) < Len(near)
       /\ markers[near] = {"README.md"}
       /\ ".git" \in markers[far]
       /\ rootResult = AbsPath(near)

\* C8 (as stated): for every directory D holding .git, a call on a descendant
\* of D returns D.
C8_GitAncestorReturned ==
  \A D \in Dirs :
    (Called /\ ".git" \in markers[D] /\ IsPrefix(D, Resolve(rootStart)) /\ D # Resolve(rootStart))
      => rootResult = AbsPath(D)

\* C8 (amended): for every directory D below the filesystem root holding
\* .git, a call on D or a descendant of D returns D when no directory from
\* the start path up to, but excluding, D holds a marker.
C8_GitAncestorUnshadowed ==
  \A D \in Dirs \ {rootPath} :
    (/\ Called
     /\ ".git" \in markers[D]
     /\ IsPrefix(D, Resolve(rootStart))
     /\ \A e \in AncestorsOrSelf(Resolve(rootStart)) : (Len(e) > Len(D)) => ~Marked(e))
      => rootResult = AbsPath(D)

\* a call two levels below an unshadowed .git directory returned that directory
C8_Witness ==
  /\ Called
  /\ \E D \in Dirs \ {rootPath} :
       /\ markers[D] = {".git"}
       /\ IsPrefix(D, Resolve(rootStart))
       /\ Len(Resolve(rootStart)) = Len(D) + 2
       /\ \A e \in AncestorsOrSelf(Resolve(rootStart)) : (Len(e) > Len(D)) => ~Marked(e)
       /\ rootResult = AbsPath(D)

\* C9: with no marker in any directory from the start path up to the
\* filesystem root, the call returns its argument in the form it was given.
C9_FallbackReturnsInput ==
  (Called /\ MarkedAbove = {}) => rootResult = rootStart

\* a relative start path came back relative although markers exist elsewhere
C9_Witness ==
  /\ Called
  /\ MarkedAbove = {}
  /\ rootStart.tag = "rel"
  /\ rootResult = rootStart
  /\ rootResult # AbsPath(Resolve(rootStart))
  /\ \E d \in Dirs : Marked(d)

(***************************************************************************)
(* Properties of buildCodeStructureMap (checked under SpecStructure)       *)
(***************************************************************************)
Built == structure.complexity # "unknown"

\* the total line count of the argument, counted from the file list itself
T == SumLines(fileContents)

CanonicalOrder == <<"conceptual", "structural", "analysis", "synthesis">>

Invoked(c) == calls[c].pc # "idle"
Done(c)    == calls[c].pc = "done"

\* the promise was fulfilled with a success envelope
Succeeded(c) == Done(c) /\ results[c].settled = "fulfilled" /\ ~results[c].isError

\* the promise was fulfilled with {error, status: "failed"} and the error flag
Failed(c) ==
  /\ Done(c)
  /\ results[c].settled = "fulfilled"
  /\ results[c].isError
  /\ results[c].status = "failed"
  /\ results[c].error # ""

\* the records an invocation appended, in history order
Own(c)      == SelectSeq(analysisHistory, LAMBDA r : r.findings.call = c)
PhasesOf(h) == [i \in 1..Len(h) |-> h[i].phase]

\* the path argument names something that exists
Existing(p) == p.tag \in {"abs", "rel"} /\ Resolve(p) \in Dirs \cup Files

\* C1: a successful invocation with phase "all" appended exactly four records,
\* one per phase in the order conceptual, structural, analysis, synthesis, at
\* four consecutive positions (the history grew by 4), and returned one
\* comprehensive envelope with nextPhaseNeeded false.
C1_AllPhasesInOrder ==
  \A c \in Calls :
    (Succeeded(c) /\ calls[c].input.phase = PhaseArg("all")) =>
      /\ PhasesOf(Own(c)) = CanonicalOrder
      /\ \A i \in 1..Len(Own(c)) : Own(c)[i].findings.phase = CanonicalOrder[i]
      /\ \E k \in 0..(Len(analysisHistory) - 4) :
           /\ \A i \in 1..4 : analysisHistory[k + i].findings.call = c
           /\ results[c].analysisHistoryLength = k + 4
      /\ results[c].phase = "comprehensive"
      /\ results[c].completedPhases = CanonicalOrder
      /\ results[c].nextPhaseNeeded = FALSE

\* an "all" run succeeded on a history that already held earlier records
C1_Witness ==
  \E c \in Calls :
    /\ Succeeded(c)
    /\ calls[c].input.phase = PhaseArg("all")
    /\ Len(Own(c)) = 4
    /\ Len(analysisHistory) > 4
    /\ analysisHistory[1].findings.call # c

\* C2: a successful invocation with one of the four phases appended exactly
\* one record, of that phase and of the resolved repository root, and its
\* envelope carries the record's findings and nextPhaseNeeded, which is false
\* only for synthesis.
C2_SinglePhaseRecord ==
  \A c \in Calls :
    (Succeeded(c) /\ calls[c].input.phase.given /\ calls[c].input.phase.text \in FourPhases) =>
      /\ Len(Own(c)) = 1
      /\ Own(c)[1].phase = calls[c].input.phase.text
      /\ Own(c)[1].projectPath = findRepositoryRoot(markers, calls[c].input.projectPath)
      /\ results[c].phase = calls[c].input.phase.text
      /\ results[c].projectPath = Own(c)[1].projectPath
      /\ results[c].findings = Own(c)[1].findings
      /\ results[c].nextPhaseNeeded = Own(c)[1].nextPhaseNeeded
      /\ results[c].nextPhaseNeeded = (calls[c].input.phase.text # "synthesis")
      /\ results[c].suggestedNextPhase # ""

\* a synthesis call succeeded on a path whose root differs from it
C2_Witness ==
  \E c \in Calls :
    /\ Succeeded(c)
    /\ calls[c].input.phase = PhaseArg("synthesis")
    /\ Len(Own(c)) = 1
    /\ Own(c)[1].projectPath # calls[c].input.projectPath
    /\ ~results[c].nextPhaseNeeded

\* C3: every step leaves the previous history as a prefix of the new one.
C3_AppendOnly == [][IsPrefix(analysisHistory, analysisHistory')]_vars

\* the history holds records of two invocations and a later invocation failed
C3_Witness ==
  /\ Len(analysisHistory) >= 2
  /\ analysisHistory[1].findings.call # analysisHistory[Len(analysisHistory)].findings.call
  /\ \E c \in Calls : Failed(c) \/ results[c].settled = "rejected"

\* C4: an invocation with an existing path and an unrecognized phase string
\* ends in the failure envelope, not in a rejected promise, and appends
\* nothing.
C4_UnknownPhaseFails ==
  \A c \in Calls :
    (/\ Done(c)
     /\ Existing(calls[c].input.projectPath)
     /\ calls[c].input.phase.given
     /\ calls[c].input.phase.text \notin FourPhases \cup {"all", ""})
      => (Failed(c) /\ Own(c) = <<>>)

\* C5: an invocation whose path is missing, empty or does not exist returns
\* the failure envelope at once, runs no phase and appends nothing.
C5_InvalidPathFails ==
  \A c \in Calls :
    (Invoked(c) /\ ~Existing(calls[c].input.projectPath)) =>
      (Failed(c) /\ Own(c) = <<>> /\ results[c].findings = NoFindings)

\* an invalid path was answered with the failure envelope while the history
\* held the records of earlier invocations
C5_Witness ==
  /\ analysisHistory # <<>>
  /\ \E c \in Calls :
       /\ Failed(c)
       /\ calls[c].input.projectPath \in {Undefined, EmptyPath, AbsPath(<<"x">>)}
       /\ \A i \in 1..Len(analysisHistory) : analysisHistory[i].findings.call < c

RECURSIVE FilesUnder(_, _)
FilesUnder(items, dir) ==
  UNION {IF items[i].kind = "file" THEN {Append(dir, items[i].name)}
         ELSE FilesUnder(items[i].items, Append(dir, items[i].name)) : i \in 1..Len(items)}

AllFiles     == FilesUnder(docScan.tree.items, <<>>)
FileName(f)  == f[Len(f)]
DirsAbove(f) == SubSeq(f, 1, Len(f) - 1)
Collected    == {keyDocs.keyDocs[i] : i \in 1..Len(keyDocs.keyDocs)}
ErrorFree    == docScan.fault = NoFault

\* every directory from the scanned one down to the file is at depth <= 10
\* and none below the scanned one is named node_modules, .git, dist or build
WithinDepth(f) == Len(DirsAbove(f)) <= 10
NotSkipped(f)  ==
  \A i \in 1..Len(DirsAbove(f)) :
    DirsAbove(f)[i] \notin {<<"node_modules">>, <<".git">>, <<"dist">>, <<"build">>}

\* the name, upper and lower case taken as equal, matches a key pattern
MatchesIgnoringCase(name) ==
  \E i \in 1..Len(keyPatterns) : PatternTest(keyPatterns[i], name)

\* C11 (as stated): a file inside the scanned tree whose whole name, extension
\* included, matches a key pattern without regard to case is collected:
\* "readme.MD" and "README.Md" just like "README.md".
C11_CaseInsensitiveNames ==
  (keyDocs.called /\ ErrorFree) =>
    \A f \in AllFiles :
      (WithinDepth(f) /\ NotSkipped(f) /\ MatchesIgnoringCase(FileName(f))) => f \in Collected

\* C12: without filesystem errors a file with a matching name is collected if
\* and only if all directories on its path are within depth 10 and none below
\* the scanned directory is named node_modules, .git, dist or build; with or
\* without errors nothing below depth 10 is ever collected.
C12_DepthAndSkipList ==
  keyDocs.called =>
    /\ ErrorFree =>
         \A f \in AllFiles :
           IsKeyDoc(FileName(f)) => (f \in Collected <=> (WithinDepth(f) /\ NotSkipped(f)))
    /\ \A f \in Collected : f \in AllFiles /\ WithinDepth(f)
    /\ Cardinality(Collected) = Len(keyDocs.keyDocs)

\* README.md in a directory of depth 11 was left out while DESIGN.md in the
\* scanned directory was collected
C12_Witness ==
  /\ keyDocs.called
  /\ ErrorFree
  /\ Collected = {<<DESIGN_md>>}
  /\ \E f \in AllFiles :
       FileName(f) = README_md /\ Len(DirsAbove(f)) = 11 /\ NotSkipped(f) /\ f \notin Collected

\* C19: findKeyDocs never throws; a failing directory listing or stat ends the
\* scan, and what is returned is a prefix of the result of the error-free scan
\* that holds nothing at or below the failing path.
C19_PartialResultNoThrow ==
  keyDocs.called =>
    /\ ~keyDocs.threw
    /\ IsPrefix(keyDocs.keyDocs, ScanFrom(docScan.tree, NoFault).keyDocs)
    /\ ~ErrorFree => \A f \in Collected : ~IsPrefix(docScan.fault.path, f)

\* the listing of a directory failed after DESIGN.md had been collected: the
\* call returned DESIGN.md alone although the error-free scan finds two files
C19_Witness ==
  /\ keyDocs.called
  /\ ~keyDocs.threw
  /\ docScan.fault.op = "readdir"
  /\ ScanFrom(docScan.tree, docScan.fault).thrown
  /\ keyDocs.keyDocs = <<(<<DESIGN_md>>)>>
  /\ Len(ScanFrom(docScan.tree, NoFault).keyDocs) = 2

(***************************************************************************)
(* Properties of extractImports (checked under SpecImports)                *)
(***************************************************************************)
local    == <<".", "/", "l", "o", "c", "a", "l">>
left_pad == <<"l", "e", "f", "t", "-", "p", "a", "d">>

EcmaScript     == {".js", ".ts", ".tsx", ".jsx"}
WithStrategy   == EcmaScript \cup {".py", ".c", ".h"}
Returned       == {imports.list[i] : i \in 1..Len(imports.list)}

\* C13: whatever the extension, no returned dependency starts with '.':
\* import x from "./local" yields nothing, import { x } from "left-pad" yields
\* "left-pad", require("pkg") yields "pkg"; an extension without an
\* extraction strategy yields the empty list.
C13_RelativeImportsExcluded ==
  imports.called =>
    /\ \A imp \in Returned : imp # <<>> /\ imp[1] # "."
    /\ source.extension \notin WithStrategy => imports.list = <<>>
    /\ source.extension \in EcmaScript =>
         /\ source.content = <<Statement("import_from", <<"x">>, local)>> => imports.list = <<>>
         /\ source.content = <<Statement("import_from", <<"x">>, left_pad)>>
              => imports.list = <<left_pad>>
         /\ source.content = <<Statement("require_call", <<"x">>, pkg)>> => imports.list = <<pkg>>
         /\ \A i \in 1..Len(source.content) :
              (/\ source.content[i].form \in {"import_from", "require_call"}
               /\ source.content[i].module[1] # ".")
                => source.content[i].module \in Returned

\* a TypeScript file importing "./local" and requiring "pkg" yielded "pkg" alone
C13_Witness ==
  /\ imports.called
  /\ source.extension = ".ts"
  /\ source.content = <<Statement("import_from", <<"x">>, local),
                        Statement("require_call", <<"x">>, pkg)>>
  /\ imports.list = <<pkg>>

(***************************************************************************)
(* Properties of analyzeCodeFiles (checked under SpecAggregate)            *)
(***************************************************************************)
\* the loop read every file and the aggregate step ran
Aggregated == analysisResult.called /\ analysisResult.result.codeStructure # EmptyObject

NoDuplicates(list) == \A i, j \in 1..Len(list) : list[i] = list[j] => i = j
Values(list)       == {list[i] : i \in 1..Len(list)}

\* the number of code elements the per-file extraction returned, file by file
RECURSIVE ExtractionCount(_)
ExtractionCount(files) ==
  IF files = <<>> THEN 0 ELSE Len(files[1].elements) + ExtractionCount(Tail(files))

\* C14: after the aggregate step the dependency, entry-point, pattern and
\* architecture lists hold every extracted value once, while the code-element
\* list holds one entry per extraction: its length is the sum of the per-file
\* counts, so an element extracted twice appears twice.
C14_DeduplicationAsymmetry ==
  Aggregated =>
    LET result == analysisResult.result
    IN /\ NoDuplicates(result.dependencies)
       /\ NoDuplicates(result.entryPoints)
       /\ NoDuplicates(result.patterns)
       /\ NoDuplicates(result.architecture)
       /\ Values(result.dependencies) = UNION {Values(codeFiles[i].imports) : i \in 1..Len(codeFiles)}
       /\ Values(result.patterns) = UNION {Values(codeFiles[i].patterns) : i \in 1..Len(codeFiles)}
       /\ Values(result.architecture) =
            UNION {Values(codeFiles[i].architecture) : i \in 1..Len(codeFiles)}
       /\ Values(result.entryPoints) =
            {codeFiles[i].path : i \in {j \in 1..Len(codeFiles) : codeFiles[j].entryPoint}}
       /\ Len(result.functionsAndClasses) = ExtractionCount(codeFiles)

\* two files that both require express and both declare main: the dependency
\* list holds express once, the element list holds function main three times
C14_Witness ==
  /\ Aggregated
  /\ Len(codeFiles) = 2
  /\ analysisResult.result.dependencies = <<express, pkg>>
  /\ Len(analysisResult.result.functionsAndClasses) = 3
  /\ \A i \in 1..3 : analysisResult.result.functionsAndClasses[i].name = "main"
  /\ analysisResult.result.functionsAndClasses[1].file = analysisResult.result.functionsAndClasses[2].file
  /\ analysisResult.result.functionsAndClasses[1].file # analysisResult.result.functionsAndClasses[3].file

(***************************************************************************)
(* Properties of the phases and the envelopes (checked under Spec)         *)
(***************************************************************************)
\* findings reports n = Len(history) completed phases and lists the phases of
\* the last min(3, n) records of history, oldest first
SummarizesTail(findings, history) ==
  LET n == Len(history)
  IN /\ findings.completed = n
     /\ Len(findings.recent) = (IF n < 3 THEN n ELSE 3)
     /\ \A i \in 1..Len(findings.recent) :
          findings.recent[i] = history[n - Len(findings.recent) + i].phase

SinglePhaseOnExisting(c) ==
  /\ Existing(calls[c].input.projectPath)
  /\ calls[c].input.phase.given
  /\ calls[c].input.phase.text \in FourPhases

\* C17 (as stated): whatever the history holds, an invocation of any single
\* phase on a valid path succeeds and appends its record.
C17_AnyPhaseAnyTime ==
  \A c \in Calls :
    (Done(c) /\ SinglePhaseOnExisting(c)) => (Succeeded(c) /\ Len(Own(c)) = 1)

\* what holds instead: such an invocation succeeds with one record unless it is
\* the Analysis phase with a source file that cannot be read, which is
\* rejected; which phases ran before plays no part
SinglePhaseOutcome ==
  \A c \in Calls :
    (Done(c) /\ SinglePhaseOnExisting(c)) =>
      IF calls[c].readFailed
      THEN calls[c].input.phase.text = "analysis" /\ results[c].settled = "rejected" /\ Own(c) = <<>>
      ELSE Succeeded(c) /\ Len(Own(c)) = 1

\* C18 (as stated): when a source file cannot be read during the Analysis
\* phase the run goes on: the invocation ends with a success envelope, for
\* phase "all" with all four records appended.
C18_ReadFailureSwallowed ==
  \A c \in Calls :
    (Done(c) /\ calls[c].readFailed) =>
      /\ Succeeded(c)
      /\ calls[c].requestedPhase = "all" => Len(Own(c)) = 4

\* C20: a success envelope and every record of the invocation carry the
\* resolved root as projectPath; repositoryRoot and providedPath are both
\* present when the root differs from the provided path (and then
\* repositoryRoot = projectPath) and both absent when it does not.
C20_RootIsEffectivePath ==
  \A c \in Calls :
    Succeeded(c) =>
      LET provided == calls[c].input.projectPath
          root     == findRepositoryRoot(markers, provided)
      IN /\ results[c].projectPath = root
         /\ \A i \in 1..Len(Own(c)) :
              Own(c)[i].projectPath = root /\ Own(c)[i].findings.project = root
         /\ Own(c) # <<>>
         /\ root # provided =>
              /\ results[c].repositoryRoot = root
              /\ results[c].providedPath = provided
              /\ results[c].projectPath = results[c].repositoryRoot
         /\ root = provided =>
              /\ results[c].repositoryRoot = Undefined
              /\ results[c].providedPath = Undefined

\* an "all" run on /a/b/c was carried out on its root /a/b and reported both paths
C20_Witness ==
  \E c \in Calls :
    /\ Succeeded(c)
    /\ calls[c].input.projectPath = AbsPath(<<"a", "b", "c">>)
    /\ results[c].phase = "comprehensive"
    /\ results[c].projectPath = AbsPath(<<"a", "b">>)
    /\ results[c].repositoryRoot = AbsPath(<<"a", "b">>)
    /\ results[c].providedPath = AbsPath(<<"a", "b", "c">>)
    /\ \A i \in 1..Len(Own(c)) : Own(c)[i].projectPath = AbsPath(<<"a", "b">>)

(***************************************************************************)
(* Properties of the report renderers (checked under SpecReport)           *)
(***************************************************************************)
\* C16: called with the empty history, the Synthesis renderer and the
\* comprehensive-report renderer do not throw and return a non-empty text.
C16_TotalOnEmptyHistory ==
  (reportOut.renderer # "none" /\ reportHistory = <<>>) =>
    /\ ~reportOut.threw
    /\ reportOut.text # <<>>
    /\ reportOut.completed = 0

\* the comprehensive report was rendered from the empty history
C16_Witness ==
  /\ reportHistory = <<>>
  /\ reportOut.renderer = "comprehensive"
  /\ ~reportOut.threw
  /\ Len(reportOut.text) > 0

(***************************************************************************)
(* Properties of the suggested next phase (checked under Spec)             *)
(***************************************************************************)
\* the phase after p in the canonical order, "complete" after the last
Successor(p) ==
  CASE p = "conceptual" -> "structural"
    [] p = "structural" -> "analysis"
    [] p = "analysis"   -> "synthesis"
    [] p = "synthesis"  -> "complete"

\* C21: a successful single-phase invocation of phase p suggests the successor
\* of p, "complete" for synthesis, and carries no completedPhases; the
\* suggestion binds nobody: whatever an earlier invocation suggested, a later
\* single-phase invocation whose files can be read succeeds with the record
\* of the phase it asked for.
C21_SuggestionIsAdvisory ==
  \A c \in Calls :
    /\ (Succeeded(c) /\ SinglePhaseOnExisting(c)) =>
         /\ results[c].suggestedNextPhase = Successor(calls[c].input.phase.text)
         /\ results[c].completedPhases = <<>>
    /\ \A d \in Calls :
         (/\ d < c
          /\ Succeeded(d) /\ SinglePhaseOnExisting(d)
          /\ Done(c) /\ SinglePhaseOnExisting(c) /\ ~calls[c].readFailed)
           => /\ Succeeded(c)
              /\ PhasesOf(Own(c)) = <<calls[c].input.phase.text>>

\* synthesis answered "complete" and conceptual answered "structural", yet
\* the invocation after each of them ran another phase and succeeded
C21_Witness ==
  \E d \in Calls, c \in Calls :
    /\ d < c
    /\ Succeeded(d) /\ Succeeded(c)
    /\ SinglePhaseOnExisting(d) /\ SinglePhaseOnExisting(c)
    /\ results[d].suggestedNextPhase \in {"complete", "structural"}
    /\ calls[c].input.phase.text = "analysis"
    /\ results[c].suggestedNextPhase = "synthesis"
    /\ PhasesOf(Own(c)) = <<"analysis">>

(***************************************************************************)
(* Properties of the largest files (checked under SpecRanking)             *)
(***************************************************************************)
\* the i-th file read carries i in its path: its place in encounter order
Encounter(file) == file.path[2]

\* a ranks before b: more lines, or as many lines and read earlier
RanksBefore(a, b) ==
  a.lines > b.lines \/ (a.lines = b.lines /\ Encounter(a) < Encounter(b))

InputFiles ==
  {[path |-> fileContents[i].path, lines |-> fileContents[i].lines, size |-> fileContents[i].size] :
     i \in 1..Len(fileContents)}

Largest == {structure.largestFiles[i] : i \in 1..Len(structure.largestFiles)}

\* C22: largestFiles holds min(5, n) of the n files, each with its path, lines
\* and size; every listed file ranks before the ones listed after it and
\* before every file left out, where more lines rank first and among equal
\* line counts the file read earlier.
C22_LargestFilesRanking ==
  Built =>
    /\ Len(structure.largestFiles) = (IF Len(fileContents) < 5 THEN Len(fileContents) ELSE 5)
    /\ Largest \subseteq InputFiles
    /\ \A i, j \in 1..Len(structure.largestFiles) :
         i < j => RanksBefore(structure.largestFiles[i], structure.largestFiles[j])
    /\ \A out \in InputFiles \ Largest :
         \A i \in 1..Len(structure.largestFiles) : RanksBefore(structure.largestFiles[i], out)

\* of six files four have the highest line count: they are listed in the
\* order they were read, and of the two smaller files with equal line counts
\* the one read first takes the fifth place
C22_Witness ==
  /\ Built
  /\ Len(fileContents) = 6
  /\ Len(structure.largestFiles) = 5
  /\ \A i \in 1..4 : structure.largestFiles[i].lines = 30
  /\ \A i \in 1..3 : Encounter(structure.largestFiles[i]) < Encounter(structure.largestFiles[i + 1])
  /\ structure.largestFiles[5].lines = 10
  /\ \E out \in InputFiles \ Largest :
       out.lines = 10 /\ Encounter(structure.largestFiles[5]) < Encounter(out)
  /\ Encounter(structure.largestFiles[1]) > Encounter(structure.largestFiles[5])

(***************************************************************************)
(* Frame of buildCodeStructureMap (checked under SpecStructure)            *)
(***************************************************************************)
\* C23 (as stated): a call of buildCodeStructureMap leaves its argument as it
\* was, the same records in the same order.
C23_InputUnchanged ==
  [][structure' # structure => fileContents' = fileContents]_vars

\* what holds instead: the argument keeps its records but is left sorted by
\* descending line count, and a second call on it returns the same summary
ArgumentLeftSorted ==
  Built =>
    /\ fileContents = SortByLinesDesc(fileContents)
    /\ buildCodeStructureMap(fileContents) = structure

(***************************************************************************)
(* Overlapping invocations (checked under SpecOverlap)                     *)
(***************************************************************************)
\* the history positions that hold a record of invocation c
Positions(c) == {k \in 1..Len(analysisHistory) : analysisHistory[k].findings.call = c}

\* C24 (as stated): also when a second request is dispatched before the first
\* has returned, the records of a successful "all" invocation lie at four
\* consecutive history positions in canonical order, with no record of the
\* other invocation between them.
C24_NoInterleaving ==
  \A c \in Calls :
    (Succeeded(c) /\ calls[c].requestedPhase = "all") =>
      /\ PhasesOf(Own(c)) = CanonicalOrder
      /\ \A k \in 1..Len(analysisHistory) :
           (\E i, j \in Positions(c) : i < k /\ k < j) => k \in Positions(c)

\* what holds instead: the four records keep their order among themselves
OwnRecordsInOrder ==
  \A c \in Calls :
    (Succeeded(c) /\ calls[c].requestedPhase = "all") => PhasesOf(Own(c)) = CanonicalOrder

(***************************************************************************)
(* Properties of the file tags (checked under SpecTags)                    *)
(***************************************************************************)
StatementsOfFile == {tagSource.statements[i] : i \in 1..Len(tagSource.statements)}
PatternTags      == {tags.patterns[i] : i \in 1..Len(tags.patterns)}
ArchitectureTags == {tags.architecture[i] : i \in 1..Len(tags.architecture)}

\* the file contains require('express') and app.get('/', ...)
RequiresExpressAndRoutes ==
  /\ StatementsOfFile \cap {"requireExpress", "requireExpressCall"} # {}
  /\ "appGet" \in StatementsOfFile

\* C25 (as stated): a JavaScript file that contains require('express') and
\* app.get('/', ...) carries the Express/web-server idiom tag and the
\* server-architecture tag.
C25_ExpressFileTagged ==
  (tags.called /\ RequiresExpressAndRoutes) =>
    /\ "Express.js/Web Server" \in PatternTags
    /\ "Server Architecture" \in ArchitectureTags

\* C25 (amended): such a file carries the Express/web-server idiom tag; it
\* carries the server-architecture tag exactly when it also calls express()
\* or createServer (or assigns server = new Server), which neither
\* require('express') nor app.get(...) does.
C25_ExpressFileTaggedWhenCreated ==
  (tags.called /\ RequiresExpressAndRoutes) =>
    /\ "Express.js/Web Server" \in PatternTags
    /\ "Server Architecture" \in ArchitectureTags
         <=> StatementsOfFile \cap {"expressCall", "createServer"} # {}

\* app = require('express')() with app.get('/', handler) got the idiom tag
\* and no architecture tag at all
C25_Witness ==
  /\ tags.called
  /\ tagSource.statements = <<"requireExpressCall", "appGet">>
  /\ tags.patterns = <<"Functions", "Express.js/Web Server">>
  /\ tags.architecture = <<>>

(***************************************************************************)
(* Where the summaries come from (checked under Spec)                      *)
(***************************************************************************)
\* every record read is one that invocation c appended for the project root
ReadsOwnRecords(c, summaryOf) ==
  \A i \in 1..Len(summaryOf) :
    summaryOf[i] = [call |-> c, project |-> results[c].projectPath]

\* C26 (as stated): in every successful "all" invocation the executive summary
\* and health indicators of the comprehensive report, and the key findings of
\* Synthesis, are derived from the conceptual, structural and analysis records
\* of that same invocation, whatever the history held before.
C26_SummaryOfOwnRun ==
  \A c \in Calls :
    (Succeeded(c) /\ calls[c].requestedPhase = "all") =>
      /\ Len(results[c].findings.summaryOf) = 3
      /\ ReadsOwnRecords(c, results[c].findings.summaryOf)
      /\ Len(Own(c)[4].findings.summaryOf) = 3
      /\ ReadsOwnRecords(c, Own(c)[4].findings.summaryOf)

\* what holds instead: Synthesis reads the three records its own run has just
\* appended; the comprehensive report reads the oldest record of each phase
\* in the whole history, which is its own only if no earlier invocation has
\* recorded that phase
SummaryOfOldestRecords ==
  \A c \in Calls :
    (Succeeded(c) /\ calls[c].requestedPhase = "all") =>
      /\ ReadsOwnRecords(c, Own(c)[4].findings.summaryOf)
      /\ \A i \in 1..3 :
           results[c].findings.summaryOf[i] = Source(Find(analysisHistory, CanonicalOrder[i]))
      /\ (\A k \in 1..Len(analysisHistory) : analysisHistory[k].findings.call >= c)
           => ReadsOwnRecords(c, results[c].findings.summaryOf)

(***************************************************************************)
(* The documentation indicator (checked under SpecReport)                  *)
(***************************************************************************)
ReportLines == {reportOut.text[i] : i \in 1..Len(reportOut.text)}

\* the report was rendered and the conceptual record it read was rendered by
\* processPhase1 from n key documents
ReportOnCount(n) ==
  /\ reportOut.renderer = "comprehensive"
  /\ Find(reportHistory, "conceptual") # NotFound
  /\ Find(reportHistory, "conceptual").findings.documents = {n}

\* C27 (as stated): with zero key documents the report says "Needs
\* Improvement" and warns "Missing Key Documentation"; it says "Well
\* Documented" only when at least one key document was found.
C27_IndicatorAgreesWithCount ==
  \A n \in DocCounts :
    ReportOnCount(n) =>
      /\ n = 0 => {"Needs Improvement", "Missing Key Documentation"} \subseteq ReportLines
      /\ "Well Documented" \in ReportLines => n >= 1

\* what holds instead: whatever the count, zero included, a conceptual text
\* rendered by processPhase1 is reported as well documented
IndicatorIgnoresCount ==
  \A n \in DocCounts :
    ReportOnCount(n) =>
      /\ {"Well Documented", "Good Documentation"} \subseteq ReportLines
      /\ "Missing Key Documentation" \notin ReportLines

(***************************************************************************)
(* A renderer that throws in an "all" run (checked under Spec)             *)
(***************************************************************************)
\* the first n phases of the canonical order
CanonicalPrefix(n) == SubSeq(CanonicalOrder, 1, n)

\* the invocation runs the loop over all phases on a path that exists
AllPhasesOnExisting(c) ==
  Invoked(c) /\ calls[c].requestedPhase = "all" /\ Existing(calls[c].input.projectPath)

\* C28: while the renderer of phase p is running or has thrown, the run has
\* recorded exactly the phases before p, each with the text its renderer
\* returned on the history before the record; a run whose renderer threw (Analysis, on a file that cannot be
\* read) ends in the failure envelope with the conceptual and structural
\* records still in the history and no record for Analysis or Synthesis.
C28_NoRollbackOnThrow ==
  \A c \in Calls :
    AllPhasesOnExisting(c) =>
      /\ \A k \in Positions(c) :
           analysisHistory[k].findings =
             RenderPhase(c, analysisHistory[k].phase, analysisHistory[k].projectPath,
                         SubSeq(analysisHistory, 1, k - 1))
      /\ calls[c].pc = "rendered" =>
           PhasesOf(Own(c)) = CanonicalPrefix(PhaseIndex(calls[c].phase) - 1)
      /\ (Done(c) /\ calls[c].readFailed) =>
           /\ Failed(c)
           /\ PhasesOf(Own(c)) = <<"conceptual", "structural">>
           /\ results[c].findings = NoFindings
      /\ (Done(c) /\ ~calls[c].readFailed) =>
           /\ Succeeded(c)
           /\ PhasesOf(Own(c)) = CanonicalOrder

\* an "all" run failed in Analysis on a history that held the records of an
\* earlier invocation: these and its own two records are all still there
C28_Witness ==
  \E c \in Calls :
    /\ AllPhasesOnExisting(c)
    /\ Failed(c)
    /\ calls[c].readFailed
    /\ PhasesOf(Own(c)) = <<"conceptual", "structural">>
    /\ Len(analysisHistory) > 2
    /\ SubSeq(analysisHistory, Len(analysisHistory) - 1, Len(analysisHistory)) = Own(c)

(***************************************************************************)
(* The reported history length (checked under Spec)                        *)
(***************************************************************************)
\* the number of records appended by the invocations before c, which is the
\* history length when c starts
LengthBefore(c) ==
  Cardinality({k \in 1..Len(analysisHistory) : analysisHistory[k].findings.call < c})

\* c is the invocation that returned last
LatestCall(c) == \A d \in Calls : d > c => ~Invoked(d)

\* C29: the analysisHistoryLength of a success envelope is the history length
\* before the invocation plus 1 for a single phase and plus 4 for "all", and
\* that many records are the invocation's own; it is the length of the
\* history when the invocation returns.  An invocation answered with the
\* failure envelope for an invalid path appended nothing.
C29_ReportedHistoryLength ==
  \A c \in Calls :
    /\ Succeeded(c) =>
         LET grown == IF calls[c].requestedPhase = "all" THEN 4 ELSE 1
         IN /\ results[c].analysisHistoryLength = LengthBefore(c) + grown
            /\ Len(Own(c)) = grown
            /\ LatestCall(c) => results[c].analysisHistoryLength = Len(analysisHistory)
    /\ (Failed(c) /\ ~Existing(calls[c].input.projectPath)) =>
         /\ Own(c) = <<>>
         /\ LatestCall(c) => Len(analysisHistory) = LengthBefore(c)

\* an "all" run that followed a single-phase invocation on the same server
\* reported length 5
C29_Witness ==
  \E d \in Calls, c \in Calls :
    /\ d < c
    /\ Succeeded(d) /\ results[d].analysisHistoryLength = 1
    /\ Succeeded(c) /\ results[c].phase = "comprehensive"
    /\ results[c].analysisHistoryLength = 5
    /\ Len(analysisHistory) = 5

(***************************************************************************)
(* Termination of the traversals (checked under SpecWalkLive)              *)
(***************************************************************************)
\* a scan never lists a directory deeper than 10 and never has more than 11
\* calls on its stack, the call at depth d being the (d+1)-th; the upward
\* walk takes at most one turn per ancestor of the resolved start path
WalkWithinBounds ==
  /\ walk.kind \in ScanKinds =>
       /\ walk.deepest <= 10
       /\ Len(walk.stack) <= 11
       /\ \A i \in 1..Len(walk.stack) : walk.stack[i].depth = i - 1
  /\ walk.kind = "findRepositoryRoot" =>
       /\ walk.steps <= Len(Resolve(walk.start))
       /\ walk.pc = "done" => walk.result = findRepositoryRoot(markers, walk.start)

\* C30: every traversal stays within its bounds and finishes: the scans of
\* findKeyDocs and findCodeFiles never list a directory below depth 10 and
\* end on every directory graph, cycles through links included; the upward
\* walk of findRepositoryRoot ends after at most as many turns as the start
\* path has ancestors.
C30_TraversalsTerminate == []WalkWithinBounds /\ <>(walk.pc = "done")

\* the source-file scan finished on a project directory that holds a link to
\* itself and a directory with a link back to it, after listing directories
\* down to depth 10 and refusing depth 11
C30_Witness ==
  /\ walk.kind = "findCodeFiles"
  /\ walk.pc = "done"
  /\ walk.items.r = <<DirEntry("loop", "r"), DirEntry("src", "a")>>
  /\ walk.items.a = <<DirEntry("up", "r")>>
  /\ walk.deepest = 10
  /\ walk.cut

====
